---- MODULE Spec2Model ----
(***************************************************************************)
(* droid-cli: the build -> install -> launch cycle (commands/build.ts),    *)
(* its device acquisition (ensureDeviceAvailable, AdbManager.startEmulator)*)
(* its installation-failure classification (AdbManager.analyzeInstallError)*)
(* and recovery (handleInstallationFailure), and the build flow of the     *)
(* interactive menu (ui/interactive-menu.ts).                              *)
(***************************************************************************)
EXTENDS Integers, Sequences, FiniteSets, TLC

(***************************************************************************)
(* Text.  A diagnostic text is a sequence of chunks; a chunk stands for    *)
(* the run of characters it spells.  toLowerCase maps every chunk to its   *)
(* lower-case spelling, and String.includes is the search for a contiguous *)
(* run of chunks.                                                          *)
(***************************************************************************)
Chunks ==
  { "INSTALL_FAILED_", "Install_Failed_", "INSUFFICIENT_STORAGE", "insufficient_storage",
    "ALREADY_EXISTS", "DUPLICATE_PACKAGE", "INVALID_APK", "Failed to parse",
    "Permission denied", "USER_RESTRICTED", "weird vendor error" }

MaxTextLen == 3

RECURSIVE SeqsUpTo(_, _)
SeqsUpTo(S, n) ==
  IF n = 0 THEN { <<>> }
  ELSE LET shorter == SeqsUpTo(S, n - 1)
       IN  shorter \cup { Append(t, c) : t \in { u \in shorter : Len(u) = n - 1 }, c \in S }

Texts == SeqsUpTo(Chunks, MaxTextLen)

lowerChunk(c) ==
  CASE c = "INSTALL_FAILED_"      -> "install_failed_"
    [] c = "Install_Failed_"      -> "install_failed_"
    [] c = "INSUFFICIENT_STORAGE" -> "insufficient_storage"
    [] c = "ALREADY_EXISTS"       -> "already_exists"
    [] c = "DUPLICATE_PACKAGE"    -> "duplicate_package"
    [] c = "INVALID_APK"          -> "invalid_apk"
    [] c = "Failed to parse"      -> "failed to parse"
    [] c = "Permission denied"    -> "permission denied"
    [] c = "USER_RESTRICTED"      -> "user_restricted"
    [] OTHER                      -> c

toLowerCase(text) == [i \in 1..Len(text) |-> lowerChunk(text[i])]

includes(text, pat) ==
  \E i \in 1..(Len(text) - Len(pat) + 1) : SubSeq(text, i, i + Len(pat) - 1) = pat

(***************************************************************************)
(* AdbManager.analyzeInstallError: the (errorType, error) of a failed      *)
(* install, by the if-chain of the source.                                 *)
(***************************************************************************)
analyzeInstallErrorNoLower(errorOutput) ==
  LET error == errorOutput
  IN  IF includes(error, <<"install_failed_", "insufficient_storage">>)
        THEN [success |-> FALSE, error |-> errorOutput, errorType |-> "INSUFFICIENT_STORAGE",
              suggestion |-> <<"The device is running out of storage space. Try uninstalling unused apps or clearing app data.">>]
      ELSE IF includes(error, <<"install_failed_", "already_exists">>)
              \/ includes(error, <<"install_failed_", "duplicate_package">>)
        THEN [success |-> FALSE, error |-> errorOutput, errorType |-> "DUPLICATE_PACKAGE",
              suggestion |-> <<"The app is already installed. Try uninstalling it first or use the force reinstall option.">>]
      ELSE IF includes(error, <<"install_failed_", "invalid_apk">>)
              \/ includes(error, <<"failed to parse">>)
        THEN [success |-> FALSE, error |-> errorOutput, errorType |-> "INVALID_APK",
              suggestion |-> <<"The APK file is corrupted or invalid. Try rebuilding the project.">>]
      ELSE IF includes(error, <<"permission denied">>)
              \/ includes(error, <<"install_failed_", "user_restricted">>)
        THEN [success |-> FALSE, error |-> errorOutput, errorType |-> "PERMISSION_DENIED",
              suggestion |-> <<"Installation blocked by device security. Enable \"Install from unknown sources\" or check device permissions.">>]
      ELSE [success |-> FALSE, error |-> errorOutput, errorType |-> "UNKNOWN",
              suggestion |-> <<"Check device connection and try again. If the problem persists, try restarting ADB or the device.">>]

analyzeInstallError(errorOutput) ==
  LET error == toLowerCase(errorOutput)
  IN  IF includes(error, <<"install_failed_", "insufficient_storage">>)
        THEN [success |-> FALSE, error |-> errorOutput, errorType |-> "INSUFFICIENT_STORAGE",
              suggestion |-> <<"The device is running out of storage space. Try uninstalling unused apps or clearing app data.">>]
      ELSE IF includes(error, <<"install_failed_", "already_exists">>)
              \/ includes(error, <<"install_failed_", "duplicate_package">>)
        THEN [success |-> FALSE, error |-> errorOutput, errorType |-> "DUPLICATE_PACKAGE",
              suggestion |-> <<"The app is already installed. Try uninstalling it first or use the force reinstall option.">>]
      ELSE IF includes(error, <<"install_failed_", "invalid_apk">>)
              \/ includes(error, <<"failed to parse">>)
        THEN [success |-> FALSE, error |-> errorOutput, errorType |-> "INVALID_APK",
              suggestion |-> <<"The APK file is corrupted or invalid. Try rebuilding the project.">>]
      ELSE IF includes(error, <<"permission denied">>)
              \/ includes(error, <<"install_failed_", "user_restricted">>)
        THEN [success |-> FALSE, error |-> errorOutput, errorType |-> "PERMISSION_DENIED",
              suggestion |-> <<"Installation blocked by device security. Enable \"Install from unknown sources\" or check device permissions.">>]
      ELSE [success |-> FALSE, error |-> errorOutput, errorType |-> "UNKNOWN",
              suggestion |-> <<"Check device connection and try again. If the problem persists, try restarting ADB or the device.">>]


(***************************************************************************)
(* The session: the inputs and outcomes of the external collaborators.     *)
(***************************************************************************)
None == "<none>"

DeviceIds == { "emulator-5554", "phoneA" }

NoDevices == [d \in DeviceIds |-> "absent"]

\* the connection states one enumeration can report for a device ("absent": not listed)
DevStates(d) == IF d = "emulator-5554" THEN { "absent", "device", "offline" }
                                       ELSE { "device", "unauthorized" }

DeviceLists == { f \in [DeviceIds -> {"absent", "device", "offline", "unauthorized"}] :
                   \A d \in DeviceIds : f[d] \in DevStates(d) } \cup { NoDevices }

EmulatorImages == { "Pixel_6_API_34", "Nexus_5_API_30" }

ProjectVariantSets == { {"debug", "release"}, {"debug", "staging"} }

BuildDiagnostics == { <<>>, <<"compile error">> }

InstallDiagnostics ==
  { <<>>,
    <<"INSTALL_FAILED_", "INSUFFICIENT_STORAGE">>,
    <<"INSTALL_FAILED_", "ALREADY_EXISTS">>,
    <<"INSTALL_FAILED_", "INVALID_APK">>,
    <<"weird vendor error">> }

\* Build cycles one session may start.
MaxCycles == 2

VARIABLES
  caller,           \* "command": index.ts wrapCommand(buildCommand); "menu": interactiveMenu case 'build'
  options,          \* BuildOptions of the buildCommand calls of the session
  projectVariants,  \* project.getBuildVariants()
  configFile,       \* droid-cli.json on disk
  cmConfig,         \* ConfigManager.config (the singleton's in-memory copy)
  devices,          \* AdbManager.devices
  pc,               \* the await point the session is at
  loc,              \* the locals of buildCommand and of the functions it is in
  result,           \* the BuildResult buildCommand returned
  exitCode,         \* process exit code, or None
  cycles,           \* iterations of the build cycle started in this session
  log,              \* what the current buildCommand iteration did (for the properties)
  retryFrom,        \* the failed Build a Retry was chosen for
  picked,           \* the device last chosen in a device prompt, and whether in this cycle
  taskLoop,         \* interactiveMenu's gradle / clean / sync loop (SpecTask)
  template,         \* utils/template: the template argument (SpecSubstitute, SpecParse)
  variables,        \* utils/template: the variables argument
  tplResult,        \* utils/template: which function was called and what came of it
  rawText,          \* analyzeInstallError: errorOutput (SpecClassify)
  classified        \* analyzeInstallError: the InstallResult (SpecClassify)

sessVars == <<caller, options, projectVariants>>
clsVars  == <<rawText, classified>>
taskVars == <<taskLoop>>
tplVars  == <<template, variables, tplResult>>

\* what buildCommand and its callers work on
buildVars == <<caller, options, projectVariants, configFile, cmConfig, devices, pc, loc,
               result, exitCode, cycles, log, retryFrom, picked>>

\* what the units specified on their own work on
unitVars == <<clsVars, taskVars, tplVars>>

vars == <<caller, options, projectVariants, configFile, cmConfig, devices, pc, loc,
          result, exitCode, cycles, log, retryFrom, picked, taskLoop, template, variables, tplResult,
          rawText, classified>>

(***************************************************************************)
(* Values.                                                                 *)
(***************************************************************************)
\* A string is the sequence of its chunks: "" is <<>>, a template literal is \o.
IsEmptyString(s) == s = <<>>

\* a || b on strings
OrElse(a, b) == IF IsEmptyString(a) THEN b ELSE a

\* BuildResult; hasError is FALSE when the error field is absent.
Ok         == [success |-> TRUE,  hasError |-> FALSE, error |-> <<>>, shouldContinue |-> FALSE]
OkContinue == [success |-> TRUE,  hasError |-> FALSE, error |-> <<>>, shouldContinue |-> TRUE]
Fail(e)    == [success |-> FALSE, hasError |-> TRUE,  error |-> e,    shouldContinue |-> FALSE]

NoResult   == [success |-> FALSE, hasError |-> FALSE, error |-> <<>>, shouldContinue |-> FALSE]

\* InstallResult
InstallOk       == [success |-> TRUE, error |-> <<>>, errorType |-> None, suggestion |-> <<>>]
AdbNotAvailable == [success |-> FALSE, error |-> <<"ADB is not available">>,
                    errorType |-> "UNKNOWN",
                    suggestion |-> <<"Please ensure Android SDK is installed and ADB is in PATH">>]

\* the InstallResult slot before analyzeInstallError has run
NotClassified == [success |-> FALSE, error |-> <<>>, errorType |-> None, suggestion |-> <<>>]

\* the gradle / clean / sync loop of interactiveMenu, not running
NoTask == [menu |-> None, task |-> None, taskName |-> <<>>, at |-> "idle", runs |-> 0,
           retries |-> 0, ok |-> FALSE, error |-> <<>>, shown |-> <<>>, choice |-> None]

\* utils/template: a value of a TemplateVariables entry, or what a lookup gives
Undefined      == [kind |-> "undefined", str |-> <<>>]
Str(s)         == [kind |-> "string", str |-> s]
ObjectFunction == [kind |-> "function", str |-> <<"function Object() { [native code] }">>]

\* the variables object: its own entries
NoVariables == [n \in {} |-> Undefined]

\* what a call returned or threw
Returned(v) == [threw |-> FALSE, error |-> <<>>, value |-> v, command |-> <<>>, args |-> <<>>]
Thrown(e)   == [threw |-> TRUE,  error |-> e,    value |-> <<>>, command |-> <<>>, args |-> <<>>]
Command(c, a) == [threw |-> FALSE, error |-> <<>>, value |-> <<>>, command |-> c, args |-> a]

NoCall == [call |-> None, res |-> Returned(<<>>)]

keepAlive == options.keepAlive

defaultConfig == [exists |-> TRUE, defaultVariant |-> "debug", selectedDevice |-> None]

NoFile == [exists |-> FALSE, defaultVariant |-> None, selectedDevice |-> None]

\* the locals, before they are assigned and after they are last read
NoLocals ==
  [ config           |-> defaultConfig,  \* buildCommand: config
    variant          |-> None,           \* buildCommand: variant
    targetDeviceId   |-> None,           \* buildCommand: targetDeviceId
    emulators        |-> {},             \* ensureDeviceAvailable: availableEmulators
    selectedEmulator |-> None,           \* ensureDeviceAvailable: selectedEmulator
    attempts         |-> 0,              \* startEmulator: attempts
    recovery         |-> None,           \* the recovery handler's choice
    viaRecovery      |-> FALSE,          \* launchAppAndComplete was called by a recovery handler
    errorMessage     |-> <<>>,           \* buildCommand's catch block: errorMessage
    menuAction       |-> None,           \* the choice handleBuildSuccess returned
    sideRuns         |-> 0 ]             \* runs of the chosen command for this choice

\* no device prompt was answered yet
NoPick == [device |-> None, fresh |-> FALSE, via |-> None]

\* the answer to select 'Select target device:'; fresh while the cycle it was given in lasts
Picked(d, f) == [device |-> d, fresh |-> f, via |-> "prompt"]

\* the answer to deviceCommand's select 'Select target device:'
Switched(d) == [device |-> d, fresh |-> FALSE, via |-> "switch"]

NoRetry == [active |-> FALSE, variant |-> None, device |-> None]

\* what a Retry remembers of a failed Build
RetryOf(lg) ==
  IF lg.failedStage = "build"
    THEN [active |-> TRUE, variant |-> lg.builtVariant, device |-> lg.builtDevice]
    ELSE NoRetry

EmptyLog ==
  [ prompts       |-> {},     \* prompts issued
    builds        |-> 0,      \* gradleWrapper.build calls
    installs      |-> 0,      \* adbManager.installApk calls
    classifies    |-> 0,      \* analyzeInstallError calls
    launches      |-> 0,      \* adbManager.launchApp calls
    remediations  |-> 0,      \* uninstallApp / clearAppData calls
    remediationOk |-> FALSE,  \* result of the uninstallApp / clearAppData call
    launchOk      |-> TRUE,   \* result of the launchApp call
    buildOk       |-> FALSE,  \* the Build of this iteration succeeded
    installOk     |-> FALSE,  \* an install, or the clear-data path of a duplicate, succeeded
    firstKind     |-> None,   \* errorType of the first failed install
    firstError    |-> <<>>,   \* its error
    suggested     |-> <<>>,   \* the suggestion handleInstallationFailure printed
    choice        |-> None,   \* the remediation chosen in the recovery prompt
    menuChoice    |-> None,   \* the answer that ended the success or failure prompt
    retryFailed   |-> FALSE,  \* the retry install of a recovery failed
    retryError    |-> <<>>,   \* the error of the failed retry install
    failedStage   |-> None,   \* the stage whose failure ended the iteration
    interruptedAt |-> None,   \* the prompt at which ExitPromptError was raised
    softBoot      |-> FALSE,  \* startEmulator returned true after an exhausted poll
    spawned       |-> FALSE,  \* the emulator process was started; nothing awaits its end
    staleList     |-> FALSE,  \* ensureDeviceAvailable found its devices in an earlier list
    builtVariant  |-> None,   \* the variant gradleWrapper.build was called with
    builtDevice   |-> None    \* the target device at that call
  ]

getAvailableDevices(devs) == { d \in DeviceIds : devs[d] = "device" }

\* parseDevicesList: type is 'emulator' iff the id includes 'emulator'
isEmulator(d) == d = "emulator-5554"

getRunningEmulators(devs) == { d \in DeviceIds : isEmulator(d) /\ devs[d] = "device" }

\* AdbManager.getDevices: a failed enumeration returns [] and keeps this.devices.
GetDevicesOutcomes(devs) == DeviceLists \cup { devs }

\* The variants the configuration schema accepts.
SchemaVariants == { "debug", "release" }

\* ConfigManager.load: the file validated against the schema, invalid values
\* replaced by the defaults; without a file, the in-memory config with the
\* auto-detected default variant.
Load(file, mem, variants) ==
  IF file.exists
    THEN [exists |-> TRUE,
          defaultVariant |-> IF file.defaultVariant \in SchemaVariants
                               THEN file.defaultVariant ELSE defaultConfig.defaultVariant,
          selectedDevice |-> file.selectedDevice]
    ELSE [mem EXCEPT !.defaultVariant = IF "debug" \in variants THEN "debug" ELSE @]

\* AdbManager.installApk: what one install call can return (res), and whether
\* it called analyzeInstallError to produce it (analyzed).
installApkOutcomes ==
  { [res |-> InstallOk, analyzed |-> FALSE], [res |-> AdbNotAvailable, analyzed |-> FALSE] }
    \cup { [res |-> analyzeInstallError(t), analyzed |-> TRUE] : t \in InstallDiagnostics }

(***************************************************************************)
(* Initial state: a fresh process; the caller, the options, the project    *)
(* and the configuration file are the session's inputs.                    *)
(***************************************************************************)
\* interactiveMenu: buildCommand({ interactive: true })
MenuOptions == [variant |-> None, device |-> None, interactive |-> TRUE, keepAlive |-> FALSE]

\* index.ts: --variant (default 'debug'), --device, --stay
CommandOptions ==
  [variant : {"debug", "staging"}, device : {None, "phoneA", "unplugged-1234"},
   interactive : {FALSE}, keepAlive : BOOLEAN]

ConfigFiles ==
  { NoFile } \cup [exists : {TRUE}, defaultVariant : {"debug", "release"},
                   selectedDevice : {None, "emulator-5554"}]

\* buildCommand reads config.defaultVariant only when no variant was passed
ReadsDefaultVariant(opts) == opts.variant = None

IdleInit ==
  /\ cmConfig = defaultConfig
  /\ devices = NoDevices
  /\ loc = NoLocals
  /\ result = NoResult
  /\ exitCode = None
  /\ cycles = 0
  /\ log = EmptyLog
  /\ retryFrom = NoRetry
  /\ picked = NoPick

\* the units specified on their own, not running
clsVarsIdle ==
  /\ rawText = <<>>
  /\ classified = NotClassified

tplVarsIdle ==
  /\ template = <<>>
  /\ variables = NoVariables
  /\ tplResult = NoCall

UnitIdle ==
  /\ clsVarsIdle
  /\ taskLoop = NoTask
  /\ tplVarsIdle

Init ==
  /\ caller \in {"command", "menu"}
  /\ options \in (IF caller = "menu" THEN {MenuOptions} ELSE CommandOptions)
  /\ projectVariants \in ProjectVariantSets
  /\ configFile \in { f \in ConfigFiles : ReadsDefaultVariant(options) \/ f.defaultVariant # "release" }
  /\ IdleInit
  /\ pc = IF caller = "menu" THEN "menuTop" ELSE "start"
  /\ UnitIdle

(***************************************************************************)
(* Control: every step of buildCommand ends in one of these.               *)
(***************************************************************************)
\* go on to the next await point
Goto(p, lc, lg) ==
  /\ pc' = p
  /\ loc' = lc
  /\ log' = lg
  /\ UNCHANGED <<result, exitCode>>

\* return r from buildCommand
Return(r, stage, lg) ==
  /\ pc' = "returned"
  /\ result' = r
  /\ loc' = NoLocals
  /\ log' = [lg EXCEPT !.failedStage = stage]
  /\ UNCHANGED exitCode

\* an exception reaches buildCommand's catch block
Throw(e, lg) ==
  LET msg == <<"Build command failed: ", e>>
  IN  IF ~keepAlive
        THEN Return(Fail(msg), "exception", lg)
        ELSE Goto("failurePrompt", [NoLocals EXCEPT !.errorMessage = msg],
                  [lg EXCEPT !.failedStage = "exception", !.prompts = @ \cup {"retry"}])

\* a prompt is interrupted by Ctrl-C: inquirer rejects with ExitPromptError
Interrupt(prompt, lg) == Throw("ExitPromptError", [lg EXCEPT !.interruptedAt = prompt])

\* configManager.save(): writes this.config; rethrows a write error
SaveThen(mem, p, lc, lg) ==
  \E written \in BOOLEAN :
    IF written
      THEN /\ configFile' = [mem EXCEPT !.exists = TRUE]
           /\ Goto(p, lc, lg)
      ELSE /\ configFile' = configFile
           /\ Throw("Error", lg)

\* the build flow is over: the process ends, or interactiveMenu is back at its menu
Done(code) ==
  /\ pc' = "done"
  /\ exitCode' = code
  /\ loc' = NoLocals
  /\ log' = EmptyLog
  /\ UNCHANGED result


(***************************************************************************)
(* interactiveMenu: displayStatus, then the user picks 'Build & Run App'.  *)
(***************************************************************************)
MenuDisplayStatus ==
  /\ pc = "menuTop"
  /\ \E out \in GetDevicesOutcomes(devices) : devices' = out
  /\ pc' = "start"
  /\ UNCHANGED <<sessVars, configFile, cmConfig, loc, result, exitCode, cycles, log,
                 retryFrom, picked, unitVars>>

(***************************************************************************)
(* buildCommand, one loop iteration.                                       *)
(***************************************************************************)
\* configManager.load(); the locals of the iteration are fresh
LoadConfig ==
  /\ pc = "start"
  /\ cycles' = cycles + 1
  /\ cmConfig' = Load(configFile, cmConfig, projectVariants)
  /\ pc' = "detect"
  /\ loc' = [NoLocals EXCEPT !.config = cmConfig']
  /\ log' = EmptyLog
  /\ result' = NoResult
  /\ picked' = [picked EXCEPT !.fresh = FALSE]
  /\ UNCHANGED <<sessVars, configFile, devices, exitCode, retryFrom, unitVars>>

\* (alternative) the variant is passed on without the membership check
DetectProjectUnchecked ==
  /\ pc = "detect"
  /\ \E found \in BOOLEAN :
       IF ~found
         THEN Return(Fail(<<"No Android project found. Please run this command from an Android project directory or run \"droid-cli init\" first.">>),
                     "project", log)
         ELSE LET v  == IF options.variant # None THEN options.variant
                                                  ELSE loc.config.defaultVariant
                  lc == [loc EXCEPT !.variant = v]
              IN  IF /\ options.interactive
                     /\ options.variant = None
                     /\ loc.config.defaultVariant \notin projectVariants
                    THEN Goto("variantPrompt", lc, [log EXCEPT !.prompts = @ \cup {"variant"}])
                  ELSE Goto("ensureDevice", lc, log)
  /\ UNCHANGED <<sessVars, configFile, cmConfig, devices, cycles, retryFrom, picked, unitVars>>

\* AndroidProject.detect, then the variant is determined up to the prompt
DetectProject ==
  /\ pc = "detect"
  /\ \E found \in BOOLEAN :
       IF ~found
         THEN Return(Fail(<<"No Android project found. Please run this command from an Android project directory or run \"droid-cli init\" first.">>),
                     "project", log)
         ELSE LET v  == IF options.variant # None THEN options.variant
                                                  ELSE loc.config.defaultVariant
                  lc == [loc EXCEPT !.variant = v]
              IN  IF /\ options.interactive
                     /\ options.variant = None
                     /\ loc.config.defaultVariant \notin projectVariants
                    THEN Goto("variantPrompt", lc, [log EXCEPT !.prompts = @ \cup {"variant"}])
                  ELSE IF v \notin projectVariants
                    THEN Return(Fail(<<"Invalid build variant: ", v>>), "variant", log)
                  ELSE Goto("ensureDevice", lc, log)
  /\ UNCHANGED <<sessVars, configFile, cmConfig, devices, cycles, retryFrom, picked, unitVars>>

\* select 'Which variant would you like to build?', then set + save
VariantPrompt ==
  /\ pc = "variantPrompt"
  /\ \/ \E v \in projectVariants :
          /\ cmConfig' = [cmConfig EXCEPT !.defaultVariant = v]
          /\ SaveThen(cmConfig', "ensureDevice",
                      [loc EXCEPT !.variant = v, !.config.defaultVariant = v], log)
     \/ /\ Interrupt("variant", log)
        /\ UNCHANGED <<configFile, cmConfig>>
  /\ UNCHANGED <<sessVars, devices, cycles, retryFrom, picked, unitVars>>

(***************************************************************************)
(* ensureDeviceAvailable and AdbManager.startEmulator.                     *)
(***************************************************************************)
\* the poll of startEmulator makes at most maxAttempts enumerations
maxAttempts == 30

\* (alternative) the failure is taken to the Retry prompt of keep-alive mode
deviceFailedAsksRetry(e, lg) ==
  IF keepAlive
    THEN Goto("failurePrompt", [NoLocals EXCEPT !.errorMessage = e],
              [lg EXCEPT !.failedStage = "device", !.prompts = @ \cup {"retry"}])
    ELSE Return(Fail(e), "device", lg)

\* buildCommand on a failed ensureDeviceAvailable: the failure is returned as it is
deviceFailed(e, lg) == Return(Fail(e), "device", lg)

\* adbManager.getDevices(); getAvailableDevices(): a failed enumeration returns []
\* and leaves this.devices, which getAvailableDevices reads, as it was
EnsureGetDevices ==
  /\ pc = "ensureDevice"
  /\ \E ok \in BOOLEAN, list \in DeviceLists :
       LET out == IF ok THEN list ELSE devices
       IN  /\ devices' = out
           /\ IF getAvailableDevices(out) # {}
                THEN Goto("resolveDevice", loc, [log EXCEPT !.staleList = ~ok])
                ELSE Goto("checkEmulator", loc, log)
  /\ UNCHANGED <<sessVars, configFile, cmConfig, cycles, retryFrom, picked, unitVars>>

\* adbManager.checkEmulatorCommand()
CheckEmulatorCommand ==
  /\ pc = "checkEmulator"
  /\ \E canStartEmulator \in BOOLEAN :
       IF canStartEmulator
         THEN Goto("listEmulators", loc, log)
         ELSE deviceFailed(<<"Emulator command not found. Please connect a physical device.">>, log)
  /\ UNCHANGED <<sessVars, configFile, cmConfig, devices, cycles, retryFrom, picked, unitVars>>

\* (alternative) the boot is offered whether or not an emulator image exists
GetAvailableEmulatorsAlwaysAsks ==
  /\ pc = "listEmulators"
  /\ \E availableEmulators \in SUBSET EmulatorImages :
       Goto("confirmEmulator", [loc EXCEPT !.emulators = availableEmulators],
            [log EXCEPT !.prompts = @ \cup {"confirmEmulator"}])
  /\ UNCHANGED <<sessVars, configFile, cmConfig, devices, cycles, retryFrom, picked, unitVars>>

\* adbManager.getAvailableEmulators(); the confirm prompt does not depend on options.interactive
GetAvailableEmulators ==
  /\ pc = "listEmulators"
  /\ \E availableEmulators \in SUBSET EmulatorImages :
       IF availableEmulators # {}
         THEN Goto("confirmEmulator", [loc EXCEPT !.emulators = availableEmulators],
                   [log EXCEPT !.prompts = @ \cup {"confirmEmulator"}])
         ELSE deviceFailed(<<"No emulators found. Please create an AVD or connect a physical device.">>, log)
  /\ UNCHANGED <<sessVars, configFile, cmConfig, devices, cycles, retryFrom, picked, unitVars>>

\* (alternative) the image is asked for even when there is only one
ConfirmEmulatorAlwaysSelects ==
  /\ pc = "confirmEmulator"
  /\ \/ \E startEmulator \in BOOLEAN :
          IF ~startEmulator
            THEN deviceFailed(<<"No devices available and emulator startup declined.">>, log)
            ELSE Goto("selectEmulator", loc, [log EXCEPT !.prompts = @ \cup {"selectEmulator"}])
     \/ Interrupt("confirmEmulator", log)
  /\ UNCHANGED <<sessVars, configFile, cmConfig, devices, cycles, retryFrom, picked, unitVars>>

\* confirm 'No devices connected. Start an emulator?'
ConfirmEmulator ==
  /\ pc = "confirmEmulator"
  /\ \/ \E startEmulator \in BOOLEAN :
          IF ~startEmulator
            THEN deviceFailed(<<"No devices available and emulator startup declined.">>, log)
          ELSE IF Cardinality(loc.emulators) = 1
            THEN Goto("startEmulator",
                      [loc EXCEPT !.selectedEmulator = CHOOSE e \in loc.emulators : TRUE], log)
            ELSE Goto("selectEmulator", loc, [log EXCEPT !.prompts = @ \cup {"selectEmulator"}])
     \/ Interrupt("confirmEmulator", log)
  /\ UNCHANGED <<sessVars, configFile, cmConfig, devices, cycles, retryFrom, picked, unitVars>>

\* select 'Select emulator to start:'
SelectEmulator ==
  /\ pc = "selectEmulator"
  /\ \/ \E e \in loc.emulators : Goto("startEmulator", [loc EXCEPT !.selectedEmulator = e], log)
     \/ Interrupt("selectEmulator", log)
  /\ UNCHANGED <<sessVars, configFile, cmConfig, devices, cycles, retryFrom, picked, unitVars>>

\* startEmulator: ProcessManager.spawn, the 3 s wait, attempts = 0.  The promise spawn
\* returns is neither awaited nor caught: an emulator that cannot be launched either
\* makes spawn throw (the catch block returns false) or rejects that promise, which
\* reaches the unhandledRejection handler of index.ts, process.exit(1).
StartEmulator ==
  /\ pc = "startEmulator"
  /\ \/ Goto("poll", [loc EXCEPT !.attempts = 0], [log EXCEPT !.spawned = TRUE])
     \/ deviceFailed(<<"Failed to start emulator.">>, log)
     \/ Done(1)
  /\ UNCHANGED <<sessVars, configFile, cmConfig, devices, cycles, retryFrom, picked, unitVars>>

\* (alternative) the poll makes all its enumerations whatever they list
PollDevicesToTheEnd ==
  /\ pc = "poll"
  /\ loc.attempts < maxAttempts
  /\ \/ \E out \in GetDevicesOutcomes(devices) :
          /\ devices' = out
          /\ IF loc.attempts + 1 < maxAttempts
               THEN Goto("poll", [loc EXCEPT !.attempts = @ + 1], log)
               ELSE Goto("afterStart", [loc EXCEPT !.attempts = 0],
                         [log EXCEPT !.softBoot = getRunningEmulators(out) = {}])
     \/ /\ Done(1)
        /\ devices' = devices
  /\ UNCHANGED <<sessVars, configFile, cmConfig, cycles, retryFrom, picked, unitVars>>

\* startEmulator: one iteration of the while loop (1 s wait, getDevices, getRunningEmulators);
\* every running emulator has an id that includes 'emulator', so find() succeeds on it.
\* Leaving the loop, startEmulator returns true in both cases.  An emulator process
\* that ends with an error meanwhile rejects the promise nobody holds: process.exit(1).
PollDevices ==
  /\ pc = "poll"
  /\ loc.attempts < maxAttempts
  /\ \/ \E out \in GetDevicesOutcomes(devices) :
          /\ devices' = out
          /\ IF getRunningEmulators(out) # {}
               THEN Goto("afterStart", [loc EXCEPT !.attempts = 0], log)
             ELSE IF loc.attempts + 1 < maxAttempts
               THEN Goto("poll", [loc EXCEPT !.attempts = @ + 1], log)
             ELSE Goto("afterStart", [loc EXCEPT !.attempts = 0], [log EXCEPT !.softBoot = TRUE])
     \/ /\ Done(1)
        /\ devices' = devices
  /\ UNCHANGED <<sessVars, configFile, cmConfig, cycles, retryFrom, picked, unitVars>>

\* (alternative) a started emulator counts as a device whatever the list says
afterStartAlways(availableDevices) == TRUE

\* what ensureDeviceAvailable returns once startEmulator returned true
afterStartSuccess(availableDevices) == availableDevices # {}

\* ensureDeviceAvailable after startEmulator returned true: refresh the device list
AfterStartRefresh ==
  /\ pc = "afterStart"
  /\ \E out \in GetDevicesOutcomes(devices) :
       /\ devices' = out
       /\ IF afterStartSuccess(getAvailableDevices(out))
            THEN Goto("resolveDevice", loc, log)
            ELSE deviceFailed(<<"Emulator started but may still be booting. Please try again in a moment.">>, log)
  /\ UNCHANGED <<sessVars, configFile, cmConfig, cycles, retryFrom, picked, unitVars>>

(***************************************************************************)
(* buildCommand: the target device.                                        *)
(***************************************************************************)
\* (alternative) the target is always asked for
autoSelectsNever(availableDevices) == FALSE

\* if (availableDevices.length === 1): the only Ready device is taken without a prompt
autoSelects(availableDevices) == Cardinality(availableDevices) = 1

\* (alternative) a passed or configured device is taken as the target as it is
keepsPresetUnchecked(preset, availableDevices) == preset # None

\* the passed or configured device is kept when the enumeration has it Ready
keepsPreset(preset, availableDevices) == preset # None /\ preset \in availableDevices

\* getDevices, getAvailableDevices, options.device || config.selectedDevice, the auto-selection.
\* select() with no choice at all rejects with an error.
ResolveDevice ==
  /\ pc = "resolveDevice"
  /\ \E out \in GetDevicesOutcomes(devices) :
       LET availableDevices == getAvailableDevices(out)
           preset == IF options.device # None THEN options.device
                                              ELSE loc.config.selectedDevice
           lc == [loc EXCEPT !.emulators = {}, !.selectedEmulator = None]
           lg == [log EXCEPT !.softBoot = FALSE, !.staleList = FALSE]
       IN  /\ devices' = out
           /\ IF keepsPreset(preset, availableDevices)
                THEN /\ Goto("build", [lc EXCEPT !.targetDeviceId = preset], lg)
                     /\ UNCHANGED <<configFile, cmConfig>>
              ELSE IF autoSelects(availableDevices)
                THEN LET d == CHOOSE d \in availableDevices : TRUE
                     IN  /\ cmConfig' = [cmConfig EXCEPT !.selectedDevice = d]
                         /\ SaveThen(cmConfig', "build", [lc EXCEPT !.targetDeviceId = d], lg)
              ELSE IF availableDevices = {}
                THEN /\ Throw("Error", [lg EXCEPT !.prompts = @ \cup {"device"}])
                     /\ UNCHANGED <<configFile, cmConfig>>
              ELSE /\ Goto("devicePrompt", lc, [lg EXCEPT !.prompts = @ \cup {"device"}])
                   /\ UNCHANGED <<configFile, cmConfig>>
  /\ UNCHANGED <<sessVars, cycles, retryFrom, picked, unitVars>>

\* select 'Select target device:', then setSelectedDevice + save
DevicePrompt ==
  /\ pc = "devicePrompt"
  /\ \/ \E d \in getAvailableDevices(devices) :
          /\ cmConfig' = [cmConfig EXCEPT !.selectedDevice = d]
          /\ SaveThen(cmConfig', "build", [loc EXCEPT !.targetDeviceId = d], log)
          /\ picked' = IF pc' = "build" THEN Picked(d, TRUE) ELSE picked
     \/ /\ Interrupt("device", log)
        /\ UNCHANGED <<configFile, cmConfig, picked>>
  /\ UNCHANGED <<sessVars, devices, cycles, retryFrom, unitVars>>

(***************************************************************************)
(* buildCommand: Build and Install.                                        *)
(***************************************************************************)
\* (alternative) the failed Build is thrown to the catch block
buildFailedThrows(diag, lg) == Throw("Build failed", lg)

\* (alternative) the failed Build is passed over and the install goes ahead
buildFailedInstalls(diag, lg) == Goto("install", loc, lg)

\* (alternative) the failed Build is returned with Gradle's error alone
buildFailedBare(diag, lg) == Return(Fail(diag), "build", lg)

\* what buildCommand does with a failed Build: it returns the failure
buildFailed(diag, lg) ==
  Return(Fail(OrElse(diag, <<"Build failed. Please check the error messages above.">>)),
         "build", lg)

\* gradleWrapper.build(variant): a successful build always carries an apkPath
\* (AndroidProject.getApkPath returns a path in every case)
Build ==
  /\ pc = "build"
  /\ LET lg == [log EXCEPT !.builds = @ + 1, !.builtVariant = loc.variant,
                           !.builtDevice = loc.targetDeviceId]
     IN  \/ Goto("install", loc, [lg EXCEPT !.buildOk = TRUE])
         \/ \E diag \in BuildDiagnostics : buildFailed(diag, lg)
  /\ retryFrom' = NoRetry
  /\ UNCHANGED <<sessVars, configFile, cmConfig, devices, cycles, picked, unitVars>>

\* (alternative) every failed install but a duplicate is offered the storage remedies
handleInstallationFailureOffers(r, lg0) ==
  LET lg == [lg0 EXCEPT !.suggested = r.suggestion]
  IN  IF r.errorType = "DUPLICATE_PACKAGE"
        THEN Goto("duplicatePrompt", loc, [lg EXCEPT !.prompts = @ \cup {"recovery"}])
        ELSE Goto("storagePrompt", loc, [lg EXCEPT !.prompts = @ \cup {"recovery"}])

\* handleInstallationFailure up to its prompt: the suggestion is printed, then
\* the switch on installResult.errorType
handleInstallationFailure(r, lg0) ==
  LET lg == [lg0 EXCEPT !.suggested = r.suggestion]
  IN  IF r.errorType = "INSUFFICIENT_STORAGE"
        THEN Goto("storagePrompt", loc, [lg EXCEPT !.prompts = @ \cup {"recovery"}])
      ELSE IF r.errorType = "DUPLICATE_PACKAGE"
        THEN Goto("duplicatePrompt", loc, [lg EXCEPT !.prompts = @ \cup {"recovery"}])
      ELSE Return(Fail(OrElse(r.error, <<"APK installation failed">>)), "install", lg)

\* adbManager.installApk(targetDevice.id, buildResult.apkPath)
Install ==
  /\ pc = "install"
  /\ \E o \in installApkOutcomes :
       LET lg == [log EXCEPT !.installs = @ + 1,
                             !.classifies = IF o.analyzed THEN @ + 1 ELSE @,
                             !.firstKind = o.res.errorType,
                             !.firstError = o.res.error]
       IN  IF o.res.success
             THEN Goto("launch", loc, [lg EXCEPT !.installOk = TRUE])
             ELSE handleInstallationFailure(o.res, lg)
  /\ UNCHANGED <<sessVars, configFile, cmConfig, devices, cycles, retryFrom, picked, unitVars>>

(***************************************************************************)
(* handleInsufficientStorage, handleDuplicatePackage.                      *)
(***************************************************************************)
\* select 'How would you like to resolve the storage issue?'
StoragePrompt ==
  /\ pc = "storagePrompt"
  /\ \/ Goto("uninstall", [loc EXCEPT !.recovery = "uninstall"], [log EXCEPT !.choice = "uninstall"])
     \/ Goto("clearData", [loc EXCEPT !.recovery = "clear"], [log EXCEPT !.choice = "clear"])
     \/ Return(Fail(<<"Installation skipped due to insufficient storage">>), "install",
               [log EXCEPT !.choice = "skip"])
     \/ Interrupt("recovery", log)
  /\ UNCHANGED <<sessVars, configFile, cmConfig, devices, cycles, retryFrom, picked, unitVars>>

\* select 'The app is already installed. How would you like to proceed?'
DuplicatePrompt ==
  /\ pc = "duplicatePrompt"
  /\ \/ Goto("uninstall", [loc EXCEPT !.recovery = "force"], [log EXCEPT !.choice = "force"])
     \/ Goto("clearData", [loc EXCEPT !.recovery = "dupClear"], [log EXCEPT !.choice = "clear"])
     \/ Return(Fail(<<"Installation skipped - app already exists">>), "install",
               [log EXCEPT !.choice = "skip"])
     \/ Interrupt("recovery", log)
  /\ UNCHANGED <<sessVars, configFile, cmConfig, devices, cycles, retryFrom, picked, unitVars>>

\* (alternative) the install is retried although the remediation failed
remediationFailedRetries(e, lg) == Goto("retryInstall", loc, lg)

\* else branch of `if (uninstallSuccess)` / `if (clearSuccess)`: the failure is returned
remediationFailed(e, lg) == Return(Fail(e), "install", lg)

\* (alternative) a failed uninstall ends the force reinstall too
UninstallAppStrict ==
  /\ pc = "uninstall"
  /\ \E uninstallSuccess \in BOOLEAN :
       LET lg == [log EXCEPT !.remediations = @ + 1, !.remediationOk = uninstallSuccess]
       IN  IF uninstallSuccess
             THEN Goto("retryInstall", loc, lg)
             ELSE remediationFailed(<<"Failed to uninstall existing app">>, lg)
  /\ UNCHANGED <<sessVars, configFile, cmConfig, devices, cycles, retryFrom, picked, unitVars>>

\* adbManager.uninstallApp: its result decides under 'uninstall', is ignored under 'force'
UninstallApp ==
  /\ pc = "uninstall"
  /\ \E uninstallSuccess \in BOOLEAN :
       LET lg == [log EXCEPT !.remediations = @ + 1, !.remediationOk = uninstallSuccess]
       IN  IF loc.recovery = "force" \/ uninstallSuccess
             THEN Goto("retryInstall", loc, lg)
             ELSE remediationFailed(<<"Failed to uninstall existing app">>, lg)
  /\ UNCHANGED <<sessVars, configFile, cmConfig, devices, cycles, retryFrom, picked, unitVars>>

\* (alternative) the install is retried after every successful clear
ClearAppDataReinstalls ==
  /\ pc = "clearData"
  /\ \E clearSuccess \in BOOLEAN :
       LET lg == [log EXCEPT !.remediations = @ + 1, !.remediationOk = clearSuccess]
       IN  IF ~clearSuccess
             THEN remediationFailed(<<"Failed to clear app data">>, lg)
             ELSE Goto("retryInstall", loc, lg)
  /\ UNCHANGED <<sessVars, configFile, cmConfig, devices, cycles, retryFrom, picked, unitVars>>

\* adbManager.clearAppData: under 'clear' of a storage failure the install is retried,
\* under 'clear' of a duplicate the existing installation is launched
ClearAppData ==
  /\ pc = "clearData"
  /\ \E clearSuccess \in BOOLEAN :
       LET lg == [log EXCEPT !.remediations = @ + 1, !.remediationOk = clearSuccess]
       IN  IF ~clearSuccess
             THEN remediationFailed(<<"Failed to clear app data">>, lg)
           ELSE IF loc.recovery = "clear"
             THEN Goto("retryInstall", loc, lg)
             ELSE Goto("launch", [loc EXCEPT !.viaRecovery = TRUE], [lg EXCEPT !.installOk = TRUE])
  /\ UNCHANGED <<sessVars, configFile, cmConfig, devices, cycles, retryFrom, picked, unitVars>>

\* (alternative) the retry's failure is reported like a first failure
retryFailureGeneric(rec, e) == OrElse(e, <<"APK installation failed">>)

\* the message of a failed retry install
retryFailure(rec, e) ==
  IF rec = "force" THEN <<"Force reinstall failed: ">> \o e
                   ELSE <<"Installation failed again: ">> \o e

\* (alternative) the retry's failure is handled like a first failure
retryFailedReenters(o, lg) == handleInstallationFailure(o.res, lg)

\* what a recovery handler does with a failed retry install: it returns the failure
retryFailed(o, lg) ==
  Return(Fail(retryFailure(loc.recovery, o.res.error)), "install",
         [lg EXCEPT !.retryFailed = TRUE, !.retryError = o.res.error])

\* (alternative) a successful retry returns without launching
retrySucceededReturns(lg) == Return(Ok, None, [lg EXCEPT !.installOk = TRUE])

\* what a recovery handler does with a successful retry install:
\* return await launchAppAndComplete(adbManager, deviceId, packageName, ...)
retrySucceeded(lg) ==
  Goto("launch", [loc EXCEPT !.viaRecovery = TRUE], [lg EXCEPT !.installOk = TRUE])

\* the retry: adbManager.installApk(deviceId, apkPath) inside a recovery handler
RetryInstall ==
  /\ pc = "retryInstall"
  /\ \E o \in installApkOutcomes :
       LET lg == [log EXCEPT !.installs = @ + 1,
                             !.classifies = IF o.analyzed THEN @ + 1 ELSE @]
       IN  IF o.res.success
             THEN retrySucceeded(lg)
             ELSE retryFailed(o, lg)
  /\ UNCHANGED <<sessVars, configFile, cmConfig, devices, cycles, retryFrom, picked, unitVars>>

(***************************************************************************)
(* launchAppAndComplete.                                                   *)
(***************************************************************************)
\* (alternative) a failed launch fails the cycle
LaunchStrict ==
  /\ pc = "launch"
  /\ \E launchSuccess \in BOOLEAN :
       LET lg == [log EXCEPT !.launches = @ + 1, !.launchOk = launchSuccess]
       IN  IF ~launchSuccess
             THEN Return(Fail(<<"App installed but failed to launch automatically.">>),
                         "launch", lg)
           ELSE IF keepAlive
             THEN Goto("successMenu", [NoLocals EXCEPT !.viaRecovery = loc.viaRecovery],
                       [lg EXCEPT !.prompts = @ \cup {"successMenu"}])
             ELSE Return(Ok, None, lg)
  /\ UNCHANGED <<sessVars, configFile, cmConfig, devices, cycles, retryFrom, picked, unitVars>>

\* (alternative) the post-success menu follows the launch in every mode
LaunchOffersMenu ==
  /\ pc = "launch"
  /\ \E launchSuccess \in BOOLEAN :
       LET lg == [log EXCEPT !.launches = @ + 1, !.launchOk = launchSuccess]
       IN  Goto("successMenu", [NoLocals EXCEPT !.viaRecovery = loc.viaRecovery],
                [lg EXCEPT !.prompts = @ \cup {"successMenu"}])
  /\ UNCHANGED <<sessVars, configFile, cmConfig, devices, cycles, retryFrom, picked, unitVars>>

\* adbManager.launchApp, then the completion: a failed launch is only warned about
Launch ==
  /\ pc = "launch"
  /\ \E launchSuccess \in BOOLEAN :
       LET lg == [log EXCEPT !.launches = @ + 1, !.launchOk = launchSuccess]
       IN  IF keepAlive
             THEN Goto("successMenu", [NoLocals EXCEPT !.viaRecovery = loc.viaRecovery],
                       [lg EXCEPT !.prompts = @ \cup {"successMenu"}])
             ELSE Return(Ok, None, lg)
  /\ UNCHANGED <<sessVars, configFile, cmConfig, devices, cycles, retryFrom, picked, unitVars>>

\* keep-alive: handleBuildSuccess() inside launchAppAndComplete's loop.  Called from a
\* recovery handler, shouldContinue is returned by buildCommand instead of looped on.
SuccessMenu ==
  /\ pc = "successMenu"
  /\ \/ /\ loc.viaRecovery
        /\ Return(OkContinue, None, [log EXCEPT !.menuChoice = "build"])
        /\ UNCHANGED cycles
     \/ /\ ~loc.viaRecovery
        /\ cycles < MaxCycles
        /\ Goto("start", NoLocals, EmptyLog)
        /\ UNCHANGED cycles
     \/ /\ Return(Ok, None, log)
        /\ UNCHANGED cycles
     \/ /\ Return(Ok, None, [log EXCEPT !.interruptedAt = "successMenu"])
        /\ UNCHANGED cycles
     \/ /\ \E a \in {"logcat", "device"} :
             Goto("sideEffect", [loc EXCEPT !.menuAction = a, !.sideRuns = 0], log)
        /\ UNCHANGED cycles
  /\ UNCHANGED <<sessVars, configFile, cmConfig, devices, retryFrom, picked, unitVars>>

\* handleBuildSuccess runs the chosen command itself; launchAppAndComplete runs it again
sideRunsNeeded == IF caller = "menu" THEN 1 ELSE 2

\* where a run of the chosen command returns to
AfterSideRun ==
  IF loc.sideRuns + 1 < sideRunsNeeded
    THEN Goto("sideEffect", [loc EXCEPT !.sideRuns = @ + 1], log)
  ELSE IF caller = "menu"
    THEN Done(None)
  ELSE Goto("successMenu", [loc EXCEPT !.sideRuns = 0, !.menuAction = None],
            [log EXCEPT !.prompts = @ \cup {"successMenu"}])

\* one run of logcatCommand() or deviceCommand(): both enumerate the devices, both end the
\* process with exit(1) on their errors; deviceCommand persists the device it lets the user pick
RunSideEffect ==
  /\ pc = "sideEffect"
  /\ \E ok \in BOOLEAN, list \in DeviceLists :
       LET out == IF ok THEN list ELSE devices
           seen == IF ok THEN getAvailableDevices(list) ELSE {}
       IN  /\ devices' = out
           /\ \/ /\ Done(1)
                 /\ UNCHANGED <<configFile, cmConfig, picked>>
              \/ /\ loc.menuAction = "logcat"
                 /\ ok /\ list # NoDevices
                 /\ cmConfig' = Load(configFile, cmConfig, projectVariants)
                 /\ AfterSideRun
                 /\ UNCHANGED <<configFile, picked>>
              \/ /\ loc.menuAction = "device"
                 /\ seen = {}
                 /\ AfterSideRun
                 /\ UNCHANGED <<configFile, cmConfig, picked>>
              \/ /\ loc.menuAction = "device"
                 /\ \E d \in seen :
                      /\ cmConfig' = [Load(configFile, cmConfig, projectVariants)
                                        EXCEPT !.selectedDevice = d]
                      /\ configFile' = [cmConfig' EXCEPT !.exists = TRUE]
                      /\ picked' = Switched(d)
                 /\ AfterSideRun
  /\ UNCHANGED <<sessVars, cycles, retryFrom, unitVars>>

(***************************************************************************)
(* buildCommand's catch block in keep-alive mode.                          *)
(***************************************************************************)
\* handleBuildFailure(errorMessage): 'retry' continues the loop, 'menu' and Ctrl-C return
FailurePrompt ==
  /\ pc = "failurePrompt"
  /\ \/ /\ cycles < MaxCycles
        /\ Goto("start", NoLocals, EmptyLog)
     \/ Return(Fail(loc.errorMessage), log.failedStage, [log EXCEPT !.menuChoice = "menu"])
     \/ Return(Fail(loc.errorMessage), log.failedStage, [log EXCEPT !.interruptedAt = "retry"])
  /\ UNCHANGED <<sessVars, configFile, cmConfig, devices, cycles, retryFrom, picked, unitVars>>

(***************************************************************************)
(* The callers of buildCommand.                                            *)
(***************************************************************************)
\* index.ts wrapCommand: a failed result exits with 1;
\* interactiveMenu case 'build': handleBuildSuccess for a success, handleBuildFailure otherwise
CallerHandles ==
  /\ pc = "returned"
  /\ IF caller = "command"
       THEN Done(IF result.success THEN 0 ELSE 1)
     ELSE IF result.success
       THEN /\ pc' = "menuSuccess"
            /\ log' = [log EXCEPT !.prompts = @ \cup {"successMenu"}]
            /\ UNCHANGED <<loc, result, exitCode>>
     ELSE /\ pc' = "menuFailure"
          /\ log' = [log EXCEPT !.prompts = @ \cup {"retry"}]
          /\ UNCHANGED <<loc, result, exitCode>>
  /\ UNCHANGED <<sessVars, configFile, cmConfig, devices, cycles, retryFrom, picked, unitVars>>

\* interactiveMenu: handleBuildSuccess(); Ctrl-C reaches the menu's catch, which exits with 0
MenuSuccess ==
  /\ pc = "menuSuccess"
  /\ \/ /\ cycles < MaxCycles
        /\ Goto("start", NoLocals, EmptyLog)
     \/ Done(None)
     \/ Done(0)
     \/ \E a \in {"logcat", "device"} :
          Goto("sideEffect", [loc EXCEPT !.menuAction = a, !.sideRuns = 0], log)
  /\ UNCHANGED <<sessVars, configFile, cmConfig, devices, cycles, retryFrom, picked, unitVars>>

\* interactiveMenu: handleBuildFailure(buildResult.error || 'Unknown error')
MenuFailure ==
  /\ pc = "menuFailure"
  /\ \/ /\ cycles < MaxCycles
        /\ Goto("start", NoLocals, EmptyLog)
        /\ retryFrom' = RetryOf(log)
     \/ /\ Done(None)
        /\ UNCHANGED retryFrom
     \/ /\ Done(0)
        /\ UNCHANGED retryFrom
  /\ UNCHANGED <<sessVars, configFile, cmConfig, devices, cycles, picked, unitVars>>

Next ==
  \/ MenuDisplayStatus
  \/ LoadConfig
  \/ DetectProject
  \/ VariantPrompt
  \/ EnsureGetDevices
  \/ CheckEmulatorCommand
  \/ GetAvailableEmulators
  \/ ConfirmEmulator
  \/ SelectEmulator
  \/ StartEmulator
  \/ PollDevices
  \/ AfterStartRefresh
  \/ ResolveDevice
  \/ DevicePrompt
  \/ Build
  \/ Install
  \/ StoragePrompt
  \/ DuplicatePrompt
  \/ UninstallApp
  \/ ClearAppData
  \/ RetryInstall
  \/ Launch
  \/ SuccessMenu
  \/ RunSideEffect
  \/ FailurePrompt
  \/ CallerHandles
  \/ MenuSuccess
  \/ MenuFailure

Spec == Init /\ [][Next]_vars

(***************************************************************************)
(* The classifier on its own: analyzeInstallError applied to every text.   *)
(***************************************************************************)
InitClassify ==
  /\ caller = "command"
  /\ options = [variant |-> None, device |-> None, interactive |-> FALSE, keepAlive |-> FALSE]
  /\ projectVariants = {"debug", "release"}
  /\ configFile = NoFile
  /\ IdleInit
  /\ pc = "classify"
  /\ rawText \in Texts
  /\ classified = NotClassified
  /\ taskLoop = NoTask
  /\ tplVarsIdle

\* installApk's failure path: analyzeInstallError(stderr || stdout || '')
Classify ==
  /\ pc = "classify"
  /\ classified' = analyzeInstallError(rawText)
  /\ pc' = "classified"
  /\ UNCHANGED <<sessVars, configFile, cmConfig, devices, loc, result, exitCode, cycles,
                 log, retryFrom, picked, rawText, taskVars, tplVars>>

NextClassify == Classify

SpecClassify == InitClassify /\ [][NextClassify]_vars

(***************************************************************************)
(* Properties.                                                             *)
(***************************************************************************)
\* a failed Build ended the iteration
BuildFailedHere == log.builds > 0 /\ ~log.buildOk

\* C1: once an install has failed and the recovery flow handles it, at most one
\* further install is issued, whatever the choice, the remediation's outcome and
\* the retry's outcome: never more than two installApk calls in a cycle, the retry
\* is only reached after exactly one, and a failed retry ends the cycle.
C1_AtMostOneInstallRetry ==
  /\ log.installs <= 2
  /\ pc = "retryInstall" => log.installs = 1
  /\ log.retryFailed => pc \in {"returned", "menuFailure"} /\ log.installs = 2
  /\ pc \in {"storagePrompt", "duplicatePrompt", "uninstall", "clearData"} => log.installs = 1

\* C1 witness: the retry install of a recovery failed and the cycle has ended
C1_Witness ==
  pc = "returned" /\ log.retryFailed /\ log.installs = 2 /\ log.remediations = 1

\* C2 (as claimed): in keep-alive mode a cycle never ends on a failed Build without
\* the Retry / Return-to-menu choice having been offered.
C2_RetryOfferedOnBuildFailure ==
  (pc = "returned" /\ keepAlive /\ BuildFailedHere) => "retry" \in log.prompts

\* C3 (as claimed): the Build that follows a Retry of a failed Build gets the variant
\* and the device of the failed Build, and no variant or device prompt precedes it.
C3_RetryKeepsVariantAndDevice ==
  (pc = "build" /\ retryFrom.active) =>
     /\ loc.variant = retryFrom.variant
     /\ loc.targetDeviceId = retryFrom.device
     /\ log.prompts \cap {"variant", "device"} = {}

\* C4: without keep-alive, a failed Build makes buildCommand return success=false
\* with the diagnostic (or the default message when gradle gave none); no prompt
\* follows the failure and neither installApk nor launchApp is called.
C4_BuildFailureReturnsWithoutPrompt ==
  (pc = "returned" /\ ~keepAlive /\ BuildFailedHere) =>
     /\ ~result.success
     /\ result.hasError
     /\ result.error \in { OrElse(d, <<"Build failed. Please check the error messages above.">>) :
                             d \in BuildDiagnostics }
     /\ log.prompts \cap {"retry", "recovery", "successMenu"} = {}
     /\ log.installs = 0
     /\ log.launches = 0

\* C4 witness: a non-keep-alive cycle ended on a failed Build
C4_Witness ==
  pc = "returned" /\ ~keepAlive /\ BuildFailedHere /\ result.error = <<"compile error">>

\* C5: a cycle whose Build and Install (or install recovery) succeeded returns
\* success=true without an error, whether launchApp succeeded or not.
C5_LaunchFailureStillSuccess ==
  (pc = "returned" /\ log.buildOk /\ log.installOk) =>
     /\ result.success
     /\ ~result.hasError
     /\ log.launches = 1

\* C5 witness: Build and Install succeeded, the launch failed, the cycle returned
C5_Witness ==
  pc = "returned" /\ log.buildOk /\ log.installOk /\ ~log.launchOk /\ result.success

\* C6 (as claimed): no Retry prompt is ever issued for a device acquisition failure.
C6_NeverRetryAfterDeviceFailure ==
  ~(log.failedStage = "device" /\ "retry" \in log.prompts)

\* C6 (amended): a failed ensureDeviceAvailable makes buildCommand return that
\* failure at once, in keep-alive mode too: buildCommand issues no Retry prompt for
\* it and starts no Build; only interactiveMenu's build flow then asks Retry.
C6_DeviceFailureEndsBuildCommand ==
  /\ (pc = "returned" /\ log.failedStage = "device") =>
        /\ ~result.success
        /\ result.hasError
        /\ "retry" \notin log.prompts
        /\ log.builds = 0
  /\ (log.failedStage = "device" /\ "retry" \in log.prompts) =>
        caller = "menu" /\ pc = "menuFailure" /\ log.builds = 0

\* C6 witness: a keep-alive buildCommand returned a device acquisition failure
C6_Witness ==
  pc = "returned" /\ keepAlive /\ log.failedStage = "device" /\ ~result.success

\* C7 (as claimed): a cycle ended by Ctrl-C in one of its prompts returns a result
\* that is no failure and carries no error.
C7_InterruptIsGraceful ==
  (pc = "returned" /\ log.interruptedAt # None) => result.success /\ ~result.hasError

\* the kind of the first row of an ordered table one of whose substrings occurs in
\* the lower-cased text, UNKNOWN when no row has one
FirstRow(table, text) ==
  LET hits == { i \in 1..Len(table) :
                  \E sub \in table[i].subs : includes(toLowerCase(text), sub) }
  IN  IF hits = {} THEN "UNKNOWN"
      ELSE table[CHOOSE i \in hits : \A j \in hits : i <= j].kind

\* the table as claimed
ClaimedTable ==
  << [kind |-> "INSUFFICIENT_STORAGE", subs |-> { <<"insufficient_storage">> }],
     [kind |-> "DUPLICATE_PACKAGE",    subs |-> { <<"already_exists">>, <<"duplicate_package">> }],
     [kind |-> "INVALID_APK",          subs |-> { <<"invalid_apk">>, <<"failed to parse">> }],
     [kind |-> "PERMISSION_DENIED",    subs |-> { <<"permission denied">>, <<"user_restricted">> }] >>

\* the table with the substrings analyzeInstallError looks for
PrefixedTable ==
  << [kind |-> "INSUFFICIENT_STORAGE", subs |-> { <<"install_failed_", "insufficient_storage">> }],
     [kind |-> "DUPLICATE_PACKAGE",    subs |-> { <<"install_failed_", "already_exists">>,
                                                  <<"install_failed_", "duplicate_package">> }],
     [kind |-> "INVALID_APK",          subs |-> { <<"install_failed_", "invalid_apk">>,
                                                  <<"failed to parse">> }],
     [kind |-> "PERMISSION_DENIED",    subs |-> { <<"permission denied">>,
                                                  <<"install_failed_", "user_restricted">> }] >>

\* C8 (as claimed): analyzeInstallError returns the first row of the table of bare
\* substrings ('insufficient_storage', 'already_exists', ...).
C8_ClassifyByBareSubstrings ==
  pc = "classified" => classified.errorType = FirstRow(ClaimedTable, rawText)

\* C8 (amended): analyzeInstallError returns the kind of the first row, in the order
\* InsufficientStorage, DuplicatePackage, InvalidApk, PermissionDenied, of the table
\* 'install_failed_insufficient_storage'; 'install_failed_already_exists' or
\* 'install_failed_duplicate_package'; 'install_failed_invalid_apk' or 'failed to
\* parse'; 'permission denied' or 'install_failed_user_restricted', compared
\* case-insensitively, UNKNOWN when none occurs; the error is the text itself.
C8_ClassifyByPrefixedSubstrings ==
  pc = "classified" =>
     /\ classified.errorType = FirstRow(PrefixedTable, rawText)
     /\ classified.error = rawText
     /\ ~classified.success
     /\ rawText = <<"INSTALL_FAILED_", "INSUFFICIENT_STORAGE">>
          => classified.errorType = "INSUFFICIENT_STORAGE"
     /\ rawText = <<"INSTALL_FAILED_", "ALREADY_EXISTS">>
          => classified.errorType = "DUPLICATE_PACKAGE"
     /\ rawText = <<"weird vendor error">> => classified.errorType = "UNKNOWN"

\* C8 witness: a mixed-case text matching two rows got the earlier row's kind
C8_Witness ==
  /\ pc = "classified"
  /\ rawText = <<"Permission denied", "Install_Failed_", "ALREADY_EXISTS">>
  /\ classified.errorType = "DUPLICATE_PACKAGE"

\* C9 (as claimed): after an exhausted readiness poll, device acquisition does not fail.
C9_ExhaustedPollIsSoftSuccess ==
  log.softBoot => ~(pc = "returned" /\ ~result.success)

\* C9 (amended): after an exhausted poll startEmulator returns true, and
\* ensureDeviceAvailable enumerates once more: it succeeds only when a Ready device
\* is then listed, and otherwise buildCommand returns success=false with 'Emulator
\* started but may still be booting. Please try again in a moment.' and no Build.
C9_ExhaustedPollNeedsReadyDevice ==
  log.softBoot =>
     \/ pc = "afterStart"
     \/ pc = "resolveDevice" /\ getAvailableDevices(devices) # {}
     \/ /\ pc \in {"returned", "menuFailure"}
        /\ getAvailableDevices(devices) = {}
        /\ result = Fail(<<"Emulator started but may still be booting. Please try again in a moment.">>)
        /\ log.failedStage = "device"
        /\ log.builds = 0

\* C9 witness: the poll was exhausted and buildCommand returned the failure
C9_Witness ==
  pc = "returned" /\ log.softBoot /\ ~result.success

\* the storage recovery was chosen, its remediation succeeded, its retry install failed
StorageRetryFailed ==
  /\ pc = "returned"
  /\ log.firstKind = "INSUFFICIENT_STORAGE"
  /\ log.choice \in {"uninstall", "clear"}
  /\ log.retryFailed

\* C10 (as claimed): then the result is 'Installation failed again: <diagnostic>'
\* and analyzeInstallError ran exactly once in the cycle.
C10_ClassifiedExactlyOnce ==
  StorageRetryFailed =>
     /\ result = Fail(<<"Installation failed again: ">> \o log.retryError)
     /\ log.classifies = 1

\* C10 (amended): then the result is success=false with 'Installation failed again:
\* <diagnostic of the retry>'; installApk classifies each of its failures that has
\* adb output, so analyzeInstallError ran once or twice, but the retry's kind is
\* not acted on: no second recovery prompt, remediation or install.
C10_RetryFailureIsFinal ==
  StorageRetryFailed =>
     /\ result = Fail(<<"Installation failed again: ">> \o log.retryError)
     /\ log.classifies \in {1, 2}
     /\ log.installs = 2
     /\ log.remediations = 1

\* C10 witness: the retry failed with adb output, classified a second time
C10_Witness ==
  StorageRetryFailed /\ log.classifies = 2 /\ log.retryError = <<"weird vendor error">>

\* C11: when the retry install of a recovery succeeds, the cycle goes on to Launch
\* on the device the Build was made for, launchApp is called once, the result is
\* success=true without an error, and in keep-alive mode the post-success menu is
\* reached before the cycle returns.
C11_RecoveredInstallLaunches ==
  (log.installs = 2 /\ log.installOk) =>
     /\ pc \in {"launch", "successMenu", "sideEffect", "returned", "menuSuccess"}
     /\ pc = "launch" => loc.viaRecovery /\ loc.targetDeviceId = log.builtDevice
     /\ pc # "launch" => log.launches = 1
     /\ pc = "returned" => result.success /\ ~result.hasError
     /\ (pc = "returned" /\ keepAlive) => "successMenu" \in log.prompts

\* C11 witness: after a storage failure, a successful uninstall and a successful
\* retry, a keep-alive cycle is at its post-success menu
C11_Witness ==
  /\ pc = "successMenu"
  /\ log.firstKind = "INSUFFICIENT_STORAGE"
  /\ log.choice = "uninstall"
  /\ log.installs = 2
  /\ log.installOk

\* C12: when the enumeration device resolution works on holds exactly one Ready
\* device, that device is the target of the Build and no device prompt is issued,
\* whatever the other devices' states and whatever device the caller passed or the
\* configuration holds.
C12_SingleReadyDeviceIsTaken ==
  (pc \in {"build", "devicePrompt"} /\ Cardinality(getAvailableDevices(devices)) = 1) =>
     /\ pc = "build"
     /\ loc.targetDeviceId \in getAvailableDevices(devices)
     /\ "device" \notin log.prompts

\* C12 witness: the caller passed phoneA, only the emulator is Ready, the emulator
\* is the target
C12_Witness ==
  /\ pc = "build"
  /\ options.device = "phoneA"
  /\ devices = [d \in DeviceIds |-> IF d = "phoneA" THEN "unauthorized" ELSE "device"]
  /\ loc.targetDeviceId = "emulator-5554"

\* C13 (as claimed): once a device prompt was answered, every later cycle of the
\* session in which that device is still Ready builds for it and issues no device
\* prompt, whatever device the caller passed.
C13_ChosenDeviceIsReused ==
  (/\ picked.device # None
   /\ ~picked.fresh
   /\ pc \in {"build", "devicePrompt"}
   /\ picked.device \in getAvailableDevices(devices)) =>
     /\ pc = "build"
     /\ loc.targetDeviceId = picked.device
     /\ "device" \notin log.prompts

\* C14 (as claimed): a build cycle called without options.interactive issues no
\* emulator confirmation, emulator choice, device choice or recovery choice.
C14_NonInteractiveNeverPrompts ==
  ~options.interactive =>
     log.prompts \cap {"confirmEmulator", "selectEmulator", "device", "recovery"} = {}

(***************************************************************************)
(* The menu's task loops: 'gradle', 'clean' and 'sync'.                    *)
(*                                                                         *)
(* taskLoop.at is the position in the case block: "select" in              *)
(* selectGradleTask, "run" in gradleCommand, "prompt" in handleTaskFailure,*)
(* "back" after the case's break (or in the menu's catch, which goes on    *)
(* with the menu), "exit" after the catch's process.exit(0).  runs counts  *)
(* the calls of gradleCommand, retries the 'retry' answers.                *)
(***************************************************************************)
MaxTaskRuns == 4

TaskMenuChoices == {"gradle", "clean", "sync"}

\* the tasks selectGradleTask offers: the common ones and one of the project's
GradleTasks == {"clean", "sync", "tasks", "assembleDebug"}

\* the name the failure is reported under
taskName(menu, task) ==
  CASE menu = "clean" -> <<"Clean">>
    [] menu = "sync"  -> <<"Sync">>
    [] OTHER          -> <<"Gradle task '", task, "'">>

\* GradleResult
GradleOk      == [success |-> TRUE,  error |-> <<>>]
GradleFail(e) == [success |-> FALSE, error |-> e]

\* what the gradle wrapper does on the chosen task when it reports failure
taskFailure(task) ==
  CASE task = "clean" -> {GradleFail(<<"Clean task failed">>)}
    [] task = "sync"  -> {GradleFail(<<"Sync task failed">>)}
    [] task \in {"tasks", "dependencies"} -> {}
    [] OTHER          -> {GradleFail(<<"Task '", task, "' failed">>)}

\* gradleCommand(task): every result it can return; it never throws
gradleCommand(task) ==
  {GradleOk,
   GradleFail(<<"No Android project found. Please run this command from an Android project directory or run \"droid-cli init\" first.">>),
   GradleFail(<<"Gradle command failed: ", "spawn ENOENT">>)}
  \cup taskFailure(task)

InitTask ==
  /\ caller = "menu"
  /\ options = MenuOptions
  /\ projectVariants = {"debug", "release"}
  /\ configFile = NoFile
  /\ IdleInit
  /\ pc = "taskLoop"
  /\ clsVarsIdle
  /\ tplVarsIdle
  /\ \E m \in TaskMenuChoices :
        taskLoop = [NoTask EXCEPT !.menu = m,
                                  !.task = IF m = "gradle" THEN None ELSE m,
                                  !.at = IF m = "gradle" THEN "select" ELSE "run"]

\* case 'gradle': const task = await selectGradleTask()
SelectGradleTask ==
  /\ pc = "taskLoop"
  /\ taskLoop.at = "select"
  /\ \/ \E t \in GradleTasks : taskLoop' = [taskLoop EXCEPT !.task = t, !.at = "run"]
     \/ taskLoop' = [taskLoop EXCEPT !.at = "back", !.error = <<"No Android project found">>]
     \/ taskLoop' = [taskLoop EXCEPT !.at = "exit", !.choice = "interrupt"]
  /\ UNCHANGED <<buildVars, clsVars, tplVars>>

\* (alternative) a failed run goes round the loop again without asking
taskFailedReruns(tl, r) ==
  [tl EXCEPT !.at = "run", !.error = r.error]

\* else branch of the loop body: handleTaskFailure(name, result.error || 'Unknown error')
taskFailed(tl, r) ==
  [tl EXCEPT !.at = "prompt", !.error = r.error,
             !.taskName = taskName(tl.menu, tl.task),
             !.shown = OrElse(r.error, <<"Unknown error">>)]

\* while (!taskSuccess) { const result = await gradleCommand(task); ... }
RunTask ==
  /\ pc = "taskLoop"
  /\ taskLoop.at = "run"
  /\ taskLoop.runs < MaxTaskRuns
  /\ \E r \in gradleCommand(taskLoop.task) :
        LET tl == [taskLoop EXCEPT !.runs = @ + 1] IN
        taskLoop' = IF r.success
                    THEN [tl EXCEPT !.ok = TRUE, !.at = "back"]
                    ELSE taskFailed(tl, r)
  /\ UNCHANGED <<buildVars, clsVars, tplVars>>

\* handleTaskFailure: 'r' is 'retry', 'x' is 'menu'; anything else is turned
\* down by validate and asked again; Ctrl-C throws into the menu's catch
TaskFailurePrompt ==
  /\ pc = "taskLoop"
  /\ taskLoop.at = "prompt"
  /\ \/ taskLoop' = [taskLoop EXCEPT !.at = "run", !.retries = @ + 1, !.choice = "r",
                                     !.error = <<>>, !.shown = <<>>]
     \/ taskLoop' = [taskLoop EXCEPT !.at = "back", !.choice = "x"]
     \/ taskLoop' = [taskLoop EXCEPT !.at = "exit", !.choice = "interrupt"]
  /\ UNCHANGED <<buildVars, clsVars, tplVars>>

NextTask ==
  \/ SelectGradleTask
  \/ RunTask
  \/ TaskFailurePrompt

SpecTask == InitTask /\ [][NextTask]_vars

\* C15: the task loop of 'gradle', 'clean' and 'sync' asks Retry / Return to
\* menu after every failed run and re-runs only on Retry: while the task runs
\* it has been run once per Retry so far, afterwards once more than that; the
\* prompt is only open after a failure; the case is left for the menu only
\* after a successful run or the answer 'x', and a successful run leaves it at
\* once.  (The one other way out is the cancellation: Ctrl-C at the prompt
\* ends the process.)
C15_TaskLoopRerunsOnlyOnRetry ==
  pc = "taskLoop" =>
     /\ taskLoop.at = "run" => taskLoop.runs = taskLoop.retries /\ ~taskLoop.ok
     /\ (taskLoop.at \in {"prompt", "back", "exit"} /\ taskLoop.runs > 0) =>
           taskLoop.runs = taskLoop.retries + 1
     /\ taskLoop.at = "prompt" =>
           /\ taskLoop.runs > 0 /\ ~taskLoop.ok
           /\ taskLoop.shown = OrElse(taskLoop.error, <<"Unknown error">>)
     /\ (taskLoop.at = "back" /\ taskLoop.runs > 0) => taskLoop.ok \/ taskLoop.choice = "x"
     /\ taskLoop.at = "exit" => taskLoop.choice = "interrupt" /\ ~taskLoop.ok
     /\ taskLoop.ok => taskLoop.at = "back"

C15_Witness ==
  /\ pc = "taskLoop"
  /\ taskLoop.menu = "gradle" /\ taskLoop.task = "assembleDebug"
  /\ taskLoop.at = "back" /\ taskLoop.ok
  /\ taskLoop.retries = 2 /\ taskLoop.runs = 3

\* C16: a result buildCommand returns with success = false carries a
\* non-empty error string, and a result with success = true carries no error.
C16_FailureCarriesErrorSuccessNone ==
  pc = "returned" =>
     /\ result.success  => ~result.hasError /\ IsEmptyString(result.error)
     /\ ~result.success => result.hasError /\ ~IsEmptyString(result.error)

C16_Witness ==
  /\ pc = "returned"
  /\ ~result.success
  /\ log.builds = 1 /\ ~log.buildOk
  /\ result.error = <<"Build failed. Please check the error messages above.">>

(***************************************************************************)
(* utils/template.ts.  A template is the sequence of its pieces: "{{" and  *)
(* "}}" are the braces of a placeholder, a word piece is a run of \w       *)
(* characters, any other piece is text without braces and word characters  *)
(* at its ends.  Braces come in pairs in the templates drawn here, so the  *)
(* matches of /\{\{(\w+)\}\}/g are the piece runs "{{" word+ "}}".         *)
(***************************************************************************)
MaxTplLen == 6

WordPieces == {"device_id", "constructor"}

TplPieces == {"{{", "}}", "-s"} \cup WordPieces

Templates == SeqsUpTo(TplPieces, MaxTplLen)

\* logcat.ts passes device_id as a string, possibly '', or not at all
VariableSets ==
  {NoVariables} \cup
  { [n \in {<<"device_id">>} |-> Str(v)] : v \in {<<>>, <<"cb5cd325">>} }

\* the members every object literal inherits from Object.prototype
ObjectPrototype == {<<"constructor">>}

\* variables[variableName]: an own entry, else an inherited member, else undefined
Get(vs, name) ==
  IF name \in DOMAIN vs THEN vs[name]
  ELSE IF name \in ObjectPrototype THEN ObjectFunction
  ELSE Undefined

\* String(value)
String(v) == v.str

\* \w+ from piece i on: the index after the longest run of word pieces
RECURSIVE WordRunEnd(_, _)
WordRunEnd(s, i) ==
  IF i <= Len(s) /\ s[i] \in WordPieces THEN WordRunEnd(s, i + 1) ELSE i

\* /\{\{(\w+)\}\}/ matches at piece i
MatchAt(s, i) ==
  /\ s[i] = "{{"
  /\ LET j == WordRunEnd(s, i + 1)
     IN  j > i + 1 /\ j <= Len(s) /\ s[j] = "}}"

\* template.replace(/\{\{(\w+)\}\}/g, callback) from piece i on; the callback
\* throws at the first match whose value is undefined
RECURSIVE replaceFrom(_, _, _)
replaceFrom(s, i, vs) ==
  IF i > Len(s) THEN Returned(<<>>)
  ELSE IF MatchAt(s, i)
    THEN LET j     == WordRunEnd(s, i + 1)
             name  == SubSeq(s, i + 1, j - 1)
             value == Get(vs, name)
         IN  IF value = Undefined
               THEN Thrown(<<"Template variable '">> \o name \o <<"' is not defined">>)
               ELSE LET rest == replaceFrom(s, j + 1, vs)
                    IN  IF rest.threw THEN rest
                        ELSE Returned(String(value) \o rest.value)
  ELSE LET rest == replaceFrom(s, i + 1, vs)
       IN  IF rest.threw THEN rest ELSE Returned(<<s[i]>> \o rest.value)

substituteTemplate(t, vs) == replaceFrom(t, 1, vs)

\* the characters parseTemplateCommand tells apart
IsQuoteChar(c)  == c \in {"\"", "'"}
IsWhitespace(c) == c = " "

\* template.trim()
RECURSIVE trimStart(_)
trimStart(s) == IF s # <<>> /\ IsWhitespace(Head(s)) THEN trimStart(Tail(s)) ELSE s

RECURSIVE trimEnd(_)
trimEnd(s) ==
  IF s # <<>> /\ IsWhitespace(s[Len(s)]) THEN trimEnd(SubSeq(s, 1, Len(s) - 1)) ELSE s

trim(s) == trimEnd(trimStart(s))

\* the locals of parseTemplateCommand before its loop
ScanStart == [args |-> <<>>, current |-> <<>>, inQuotes |-> FALSE, quoteChar |-> None,
              parenDepth |-> 0]

\* (alternative) whitespace ends the argument whenever no quote is open
endsArgumentAtAnyDepth(st, char) == ~st.inQuotes /\ IsWhitespace(char)

\* the loop's fifth condition: whitespace that ends the current argument
endsArgument(st, char) == ~st.inQuotes /\ st.parenDepth = 0 /\ IsWhitespace(char)

\* one iteration of the loop over the characters
scanChar(st, char) ==
  IF ~st.inQuotes /\ IsQuoteChar(char)
    THEN [st EXCEPT !.inQuotes = TRUE, !.quoteChar = char, !.current = Append(@, char)]
  ELSE IF st.inQuotes /\ char = st.quoteChar
    THEN [st EXCEPT !.inQuotes = FALSE, !.quoteChar = None, !.current = Append(@, char)]
  ELSE IF ~st.inQuotes /\ char = "("
    THEN [st EXCEPT !.parenDepth = @ + 1, !.current = Append(@, char)]
  ELSE IF ~st.inQuotes /\ char = ")"
    THEN [st EXCEPT !.parenDepth = @ - 1, !.current = Append(@, char)]
  ELSE IF endsArgument(st, char)
    THEN IF st.current # <<>>
           THEN [st EXCEPT !.args = Append(@, st.current), !.current = <<>>]
           ELSE st
  ELSE [st EXCEPT !.current = Append(@, char)]

RECURSIVE scanFrom(_, _, _)
scanFrom(s, i, st) ==
  IF i > Len(s) THEN st ELSE scanFrom(s, i + 1, scanChar(st, s[i]))

parseTemplateCommand(t) ==
  LET trimmed == trim(t)
  IN  IF Len(trimmed) = 0
        THEN Thrown(<<"Template command cannot be empty">>)
        ELSE LET st   == scanFrom(trimmed, 1, ScanStart)
                 args == IF st.current # <<>> THEN Append(st.args, st.current) ELSE st.args
             IN  IF Len(args) = 0
                   THEN Thrown(<<"Template command cannot be empty">>)
                   ELSE Command(args[1], Tail(args))

processTemplate(t, vs) ==
  LET substituted == substituteTemplate(t, vs)
  IN  IF substituted.threw THEN substituted ELSE parseTemplateCommand(substituted.value)

(***************************************************************************)
(* substituteTemplate and processTemplate applied to every template and    *)
(* every set of variables.                                                 *)
(***************************************************************************)
InitSubstitute ==
  /\ caller = "command"
  /\ options = [variant |-> None, device |-> None, interactive |-> FALSE, keepAlive |-> FALSE]
  /\ projectVariants = {"debug", "release"}
  /\ configFile = NoFile
  /\ IdleInit
  /\ pc = "template"
  /\ clsVarsIdle
  /\ taskLoop = NoTask
  /\ template \in Templates
  /\ variables \in VariableSets
  /\ tplResult = NoCall

SubstituteTemplate ==
  /\ pc = "template"
  /\ tplResult.call = None
  /\ tplResult' = [call |-> "substituteTemplate", res |-> substituteTemplate(template, variables)]
  /\ UNCHANGED <<buildVars, clsVars, taskVars, template, variables>>

ProcessTemplate ==
  /\ pc = "template"
  /\ tplResult.call = None
  /\ tplResult' = [call |-> "processTemplate", res |-> processTemplate(template, variables)]
  /\ UNCHANGED <<buildVars, clsVars, taskVars, template, variables>>

NextSubstitute ==
  \/ SubstituteTemplate
  \/ ProcessTemplate

SpecSubstitute == InitSubstitute /\ [][NextSubstitute]_vars

\* where the placeholders {{name}} of a template start, and their names
Placeholders(t) == { i \in 1..Len(t) : MatchAt(t, i) }
NameAt(t, i)    == SubSeq(t, i + 1, WordRunEnd(t, i + 1) - 1)

\* the caller gave the variable a value
Defined(vs, name) == name \in DOMAIN vs /\ vs[name] # Undefined

UndefinedPlaceholders(t, vs) == { i \in Placeholders(t) : ~Defined(vs, NameAt(t, i)) }

\* what piece i of the template becomes: a placeholder its variable's value,
\* any other piece itself
Replacement(t, vs, i) ==
  IF i \in Placeholders(t) THEN vs[NameAt(t, i)].str
  ELSE IF \E p \in Placeholders(t) : p < i /\ i <= WordRunEnd(t, p + 1) THEN <<>>
  ELSE <<t[i]>>

RECURSIVE ReplacedUpTo(_, _, _)
ReplacedUpTo(t, vs, n) ==
  IF n = 0 THEN <<>> ELSE ReplacedUpTo(t, vs, n - 1) \o Replacement(t, vs, n)

NotDefinedError(name) == <<"Template variable '">> \o name \o <<"' is not defined">>

\* C17: substituteTemplate replaces every placeholder by its variable's string
\* value (the empty string included) and leaves the rest of the template as it
\* is; when a placeholder names a variable the caller did not define it
\* throws "Template variable '<name>' is not defined", and so does
\* processTemplate.
C17_SubstituteReplacesOrThrows ==
  (pc = "template" /\ tplResult.call # None) =>
     LET undef == UndefinedPlaceholders(template, variables)
         res   == tplResult.res
     IN  IF undef = {}
           THEN tplResult.call = "substituteTemplate" =>
                   ~res.threw /\ res.value = ReplacedUpTo(template, variables, Len(template))
           ELSE /\ res.threw
                /\ \E i \in undef : res.error = NotDefinedError(NameAt(template, i))

(***************************************************************************)
(* parseTemplateCommand applied to every string of the characters it tells *)
(* apart: a word character, a blank, the two quotes, the two parentheses.  *)
(***************************************************************************)
MaxCmdLen == 6

CmdChars == {"a", " ", "\"", "'", "(", ")"}

InitParse ==
  /\ caller = "command"
  /\ options = [variant |-> None, device |-> None, interactive |-> FALSE, keepAlive |-> FALSE]
  /\ projectVariants = {"debug", "release"}
  /\ configFile = NoFile
  /\ IdleInit
  /\ pc = "template"
  /\ clsVarsIdle
  /\ taskLoop = NoTask
  /\ template \in SeqsUpTo(CmdChars, MaxCmdLen)
  /\ variables = NoVariables
  /\ tplResult = NoCall

ParseTemplateCommand ==
  /\ pc = "template"
  /\ tplResult.call = None
  /\ tplResult' = [call |-> "parseTemplateCommand", res |-> parseTemplateCommand(template)]
  /\ UNCHANGED <<buildVars, clsVars, taskVars, template, variables>>

NextParse == ParseTemplateCommand

SpecParse == InitParse /\ [][NextParse]_vars

\* the quote that is open before character i of t (None: none is)
RECURSIVE OpenQuoteBefore(_, _)
OpenQuoteBefore(t, i) ==
  IF i = 1 THEN None
  ELSE LET q == OpenQuoteBefore(t, i - 1)
           c == t[i - 1]
       IN  IF q = None THEN (IF IsQuoteChar(c) THEN c ELSE None)
           ELSE IF c = q THEN None ELSE q

\* the parentheses opened and not closed before character i, quoted ones apart
DepthBefore(t, i) ==
  Cardinality({ k \in 1..(i - 1) : OpenQuoteBefore(t, k) = None /\ t[k] = "(" })
    - Cardinality({ k \in 1..(i - 1) : OpenQuoteBefore(t, k) = None /\ t[k] = ")" })

\* the whitespace outside quotes and outside parentheses
Separators(t) ==
  { i \in 1..Len(t) : IsWhitespace(t[i]) /\ OpenQuoteBefore(t, i) = None /\ DepthBefore(t, i) = 0 }

\* the maximal runs of characters between separators
\* (seps: the separators of a string of n characters)
TokenStarts(seps, n)   == { i \in (1..n) \ seps : i = 1 \/ (i - 1) \in seps }
TokenEnd(seps, n, a)   == CHOOSE b \in a..n : (a..b) \cap seps = {} /\ (b = n \/ (b + 1) \in seps)
TokenStart(starts, k)  == CHOOSE a \in starts : Cardinality({ x \in starts : x < a }) = k - 1

\* C18: parseTemplateCommand splits the trimmed template only at whitespace
\* outside quotes and outside parentheses: the command followed by the args
\* are, in order, the maximal runs of characters between such whitespace,
\* quotes and parentheses kept; a template that is empty after trimming throws
\* 'Template command cannot be empty'.
C18_SplitsOutsideQuotesAndParens ==
  (pc = "template" /\ tplResult.call = "parseTemplateCommand") =>
     LET t   == trim(template)
         res == tplResult.res
     IN  IF t = <<>>
           THEN res.threw /\ res.error = <<"Template command cannot be empty">>
           ELSE /\ ~res.threw
                /\ LET tokens == <<res.command>> \o res.args
                       seps   == Separators(t)
                       starts == TokenStarts(seps, Len(t))
                   IN  /\ Len(tokens) = Cardinality(starts)
                       /\ \A k \in 1..Len(tokens) :
                             LET a == TokenStart(starts, k)
                             IN  tokens[k] = SubSeq(t, a, TokenEnd(seps, Len(t), a))

C18_Witness ==
  /\ pc = "template" /\ tplResult.call = "parseTemplateCommand"
  /\ template = <<"a", " ", "(", " ", ")", " ">>
  /\ tplResult.res.command = <<"a">>
  /\ tplResult.res.args = << <<"(", " ", ")">> >>

\* where buildCommand is while it acquires the device, and while it recovers an install
AcquireDevicePcs == {"ensureDevice", "checkEmulator", "listEmulators", "confirmEmulator",
                     "selectEmulator", "startEmulator", "poll", "afterStart",
                     "resolveDevice", "devicePrompt"}
InstallRecoveryPcs == {"storagePrompt", "duplicatePrompt", "uninstall", "clearData",
                       "retryInstall"}

\* C19: in every build cycle the stages come in the order variant, device,
\* Build, Install, (recovery), Launch, post-outcome, each entered only after
\* the one before succeeded: the device is acquired for a valid variant and
\* before any Build; Build is invoked once, with a Ready target device
\* resolved; Install only after the Build of the cycle succeeded; the recovery
\* only after a failed install; Launch only after an install or its recovery
\* succeeded; the post-outcome menu only after the Launch.
C19_StagesInOrder ==
  /\ pc \in AcquireDevicePcs =>
        /\ loc.variant \in projectVariants
        /\ log.builds = 0 /\ log.installs = 0 /\ log.launches = 0
  /\ pc = "build" =>
        /\ loc.variant \in projectVariants
        /\ loc.targetDeviceId \in getAvailableDevices(devices)
        /\ log.builds = 0 /\ log.installs = 0 /\ log.launches = 0
  /\ pc = "install" =>
        log.builds = 1 /\ log.buildOk /\ log.installs = 0 /\ log.launches = 0
  /\ pc \in InstallRecoveryPcs =>
        /\ log.buildOk /\ log.installs = 1 /\ ~log.installOk /\ log.firstKind # None
        /\ log.launches = 0
  /\ pc = "launch" => log.buildOk /\ log.installOk /\ log.launches = 0
  /\ pc \in {"successMenu", "sideEffect"} => log.installOk /\ log.launches = 1
  /\ log.builds <= 1 /\ log.launches <= 1
  /\ log.builds > 0 => log.builtVariant \in projectVariants /\ log.builtDevice \in DeviceIds
  /\ log.installs > 0 => log.buildOk
  /\ log.remediations > 0 => log.installs > 0 /\ log.firstKind # None
  /\ log.launches > 0 => log.installOk

C19_Witness ==
  /\ pc = "successMenu" /\ cycles = 2
  /\ log.firstKind = "DUPLICATE_PACKAGE" /\ log.installs = 2
  /\ log.launches = 1

\* C20: in the recovery of an insufficient-storage failure, when the chosen
\* remediation itself fails (uninstallApp after 'uninstall', clearAppData
\* after 'clear'), the install is not attempted again and buildCommand
\* returns the failure naming it: 'Failed to uninstall existing app' or
\* 'Failed to clear app data'.
C20_FailedRemediationEndsRecovery ==
  (log.firstKind = "INSUFFICIENT_STORAGE" /\ log.remediations = 1 /\ ~log.remediationOk) =>
     /\ pc \in {"returned", "menuFailure"}
     /\ log.installs = 1
     /\ result = Fail(IF log.choice = "uninstall" THEN <<"Failed to uninstall existing app">>
                                                  ELSE <<"Failed to clear app data">>)

C20_Witness ==
  /\ pc = "returned"
  /\ log.firstKind = "INSUFFICIENT_STORAGE" /\ log.choice = "clear"
  /\ log.remediations = 1 /\ ~log.remediationOk
  /\ result = Fail(<<"Failed to clear app data">>)

\* the classifications handleInstallationFailure has no remedy for
NoRemedyKinds == {"INVALID_APK", "PERMISSION_DENIED", "UNKNOWN"}

\* C21 (as claimed): after a first install failure classified INVALID_APK,
\* PERMISSION_DENIED or UNKNOWN the returned failure carries the original
\* diagnostic and the classification's suggestion.
C21_FailureCarriesDiagnosticAndSuggestion ==
  (log.firstKind \in NoRemedyKinds /\ pc = "returned") =>
     /\ ~result.success
     /\ includes(result.error, log.firstError)
     /\ ~IsEmptyString(log.suggested) /\ includes(result.error, log.suggested)

\* C21 (amended): after such a failure no prompt is issued and nothing is
\* uninstalled, cleared, installed again or launched; buildCommand returns at
\* once a failure whose error is the original diagnostic ('APK installation
\* failed' when that is empty); the suggestion has been printed and is not
\* part of the result.
C21_NoRemedyFailureReturnsDiagnostic ==
  log.firstKind \in NoRemedyKinds =>
     /\ pc \in {"returned", "menuFailure"}
     /\ "recovery" \notin log.prompts
     /\ pc = "returned" => "retry" \notin log.prompts
     /\ log.remediations = 0 /\ log.installs = 1 /\ log.launches = 0
     /\ result = Fail(OrElse(log.firstError, <<"APK installation failed">>))
     /\ ~IsEmptyString(log.suggested)
     /\ log.firstKind = "INVALID_APK" =>
           log.suggested = <<"The APK file is corrupted or invalid. Try rebuilding the project.">>

C21_Witness ==
  /\ pc = "returned"
  /\ log.firstKind = "INVALID_APK"
  /\ result = Fail(<<"INSTALL_FAILED_", "INVALID_APK">>)

\* C22: after 'force' in the recovery of a duplicate package, uninstallApp is
\* called once and installApk exactly once after it, whether the uninstall
\* succeeded or not; a successful install goes on to Launch, a failed one is
\* returned as 'Force reinstall failed: ...' with no further prompt or install.
C22_ForceReinstallInstallsOnce ==
  (log.firstKind = "DUPLICATE_PACKAGE" /\ log.choice = "force") =>
     /\ pc = "uninstall" => log.remediations = 0 /\ log.installs = 1
     /\ pc # "uninstall" => log.remediations = 1
     /\ pc = "retryInstall" => log.installs = 1
     /\ pc \notin {"uninstall", "retryInstall"} =>
           /\ log.installs = 2
           /\ IF log.installOk
                THEN /\ pc \in {"launch", "successMenu", "sideEffect", "returned", "menuSuccess"}
                     /\ pc = "returned" => result.success
                ELSE /\ pc \in {"returned", "menuFailure"}
                     /\ log.retryFailed
                     /\ result = Fail(<<"Force reinstall failed: ">> \o log.retryError)

C22_Witness ==
  /\ pc = "launch"
  /\ log.firstKind = "DUPLICATE_PACKAGE" /\ log.choice = "force"
  /\ log.remediations = 1 /\ ~log.remediationOk
  /\ log.installs = 2 /\ log.installOk

\* C23: after 'clear' in the recovery of a duplicate package, clearAppData is
\* called once and installApk is not called again; when the clearing
\* succeeded the cycle goes on to Launch and buildCommand returns success
\* without an error, when it failed buildCommand returns the failure
\* 'Failed to clear app data'.
C23_DuplicateClearLaunchesExisting ==
  (log.firstKind = "DUPLICATE_PACKAGE" /\ log.choice = "clear") =>
     /\ log.installs = 1
     /\ pc = "clearData" => log.remediations = 0
     /\ pc # "clearData" =>
           /\ log.remediations = 1
           /\ IF log.remediationOk
                THEN /\ log.installOk
                     /\ pc \in {"launch", "successMenu", "sideEffect", "returned", "menuSuccess"}
                     /\ pc # "launch" => log.launches = 1
                     /\ pc = "returned" => result.success /\ ~result.hasError
                ELSE /\ pc \in {"returned", "menuFailure"}
                     /\ result = Fail(<<"Failed to clear app data">>)

C23_Witness ==
  /\ pc = "returned" /\ result.success
  /\ log.firstKind = "DUPLICATE_PACKAGE" /\ log.choice = "clear"
  /\ log.remediationOk /\ log.installs = 1 /\ log.launches = 1

\* a failed install, not recovered, ended the iteration
InstallFailedHere == log.installs > 0 /\ ~log.installOk /\ log.interruptedAt = None

\* C24 (as claimed): in keep-alive mode a cycle never ends on a hard install
\* failure without the Retry / Return-to-menu choice having been offered, and
\* no install follows a failed cycle without a new Build.
C24_RetryOfferedOnInstallFailure ==
  /\ (pc = "returned" /\ keepAlive /\ InstallFailedHere) => "retry" \in log.prompts
  /\ pc = "install" => log.builds = 1 /\ log.buildOk /\ log.installs = 0

\* droid-cli.json holds a default variant that the project declares
ValidPersistedDefault == configFile.exists /\ configFile.defaultVariant \in projectVariants

ResolvedVariant == IF options.variant # None THEN options.variant ELSE loc.config.defaultVariant

\* C26: the build executor is never called with a variant outside the
\* project's variants: device acquisition is entered only with a member, and
\* a resolved variant that is not one ends the cycle straight from the
\* variant check with an 'Invalid build variant' failure, with no prompt, no
\* Build, Install or Launch, and the caller ends without a Retry prompt.
C26_InvalidVariantEndsCycle ==
  [][ /\ pc' = "ensureDevice" => loc'.variant \in projectVariants
      /\ log'.builds > 0 => log'.builtVariant \in projectVariants
      /\ (pc = "detect" /\ ResolvedVariant \notin projectVariants) =>
            \/ pc' = "variantPrompt"
            \/ /\ pc' = "returned"
               /\ \/ result' = Fail(<<"Invalid build variant: ", ResolvedVariant>>)
                     /\ log' = [EmptyLog EXCEPT !.failedStage = "variant"]
                  \/ log'.failedStage = "project"
      /\ log'.failedStage = "variant" =>
            /\ log'.prompts = {} /\ log'.builds = 0
            /\ log'.installs = 0 /\ log'.launches = 0
            /\ pc' = "returned"
      /\ (pc = "returned" /\ log.failedStage = "variant") =>
            pc' = "done" /\ exitCode' = 1 ]_vars

C26_Witness ==
  /\ pc = "returned" /\ keepAlive /\ log.failedStage = "variant"
  /\ result = Fail(<<"Invalid build variant: ", "staging">>)

\* the positions at which gradle or adb is about to be called for the target device
DeviceCallPcs == {"build", "install", "uninstall", "clearData", "retryInstall", "launch"}

ChoicePcs == {"variantPrompt", "devicePrompt", "sideEffect"}

\* C28 (as claimed): droid-cli.json is written only by the step in which the
\* user answers a variant or device choice; the auto-selection of the only
\* Ready device and a silently used variant write nothing.
C28_ConfigWrittenOnlyAfterChoice ==
  [][configFile' # configFile => pc \in ChoicePcs]_vars

\* C29 (as claimed): in keep-alive mode the Open Logs or Switch Device command
\* chosen in the post-success menu runs, then the same menu is presented
\* again: the flow has not ended and no Build was started.
C29_SideEffectThenSameMenu ==
  [][(keepAlive /\ pc = "sideEffect") =>
        /\ pc' = "successMenu"
        /\ "successMenu" \in log'.prompts
        /\ log'.builds = log.builds]_vars

\* C30 (as claimed): in keep-alive mode the post-success menu is only shown
\* after a successful Build, Install and Launch of the cycle; from it Rebuild
\* starts another cycle of the same session, Open Logs and Switch Device run
\* their command, and the flow returns only by Return to Menu, with
\* success = true and nothing else.
C30_RebuildStartsAnotherBuild ==
  [][(keepAlive /\ pc = "successMenu") =>
        /\ log.buildOk /\ log.installOk /\ log.launches = 1
        /\ \/ pc' = "start" /\ cycles' = cycles
           \/ pc' = "sideEffect"
           \/ pc' = "returned" /\ result' = Ok]_vars

\* the positions of buildCommand's caller, after buildCommand has returned
CallerPcs == {"menuTop", "menu", "returned", "menuSuccess", "menuFailure", "sideEffect", "done"}

\* C31: without keep-alive one call of buildCommand makes at most one Build
\* and returns from the Launch step, whether the launch worked or not; up to
\* its return it has presented neither the post-success menu nor the
\* Retry / Return to Menu prompt, and it never starts a cycle again itself.
C31_SingleCycleWithoutKeepAlive ==
  [][~keepAlive =>
        /\ log'.builds <= 1
        /\ pc' \notin {"successMenu", "failurePrompt"}
        /\ pc' \notin (CallerPcs \ {"returned"}) =>
              log'.prompts \cap {"successMenu", "retry"} = {}
        /\ pc = "launch" =>
              pc' = "returned" /\ result' = Ok /\ log'.launches = 1
        /\ (pc' = "start" /\ pc # "start") => pc \in CallerPcs
        /\ pc' = "sideEffect" => caller = "menu"]_vars

\* C31 witness: buildCommand has returned success after a failed launch, without keep-alive
C31_Witness ==
  /\ ~keepAlive /\ pc = "returned" /\ result = Ok
  /\ log.launches = 1 /\ ~log.launchOk /\ log.builds = 1
  /\ log.prompts \cap {"successMenu", "retry"} = {}

EmulatorPrompts == {"confirmEmulator", "selectEmulator"}

\* the cycle's failure is the one ensureDeviceAvailable gives with the message e
FailsAtOnceWith(e) ==
  /\ pc' = "returned" /\ result' = Fail(e)
  /\ log' = [log EXCEPT !.failedStage = "device"]

\* C32: with no Ready device, ensureDeviceAvailable checks the emulator
\* command, then the emulator images, then asks for the boot, in this order,
\* and fails at the first check that does not pass: without the command no
\* image is queried and nothing is asked; without an image nothing is asked;
\* a declined boot starts no emulator.  An emulator is started only after all
\* three passed.
C32_EmulatorChecksInOrder ==
  [][ /\ pc' = "checkEmulator" => pc = "ensureDevice" /\ getAvailableDevices(devices') = {}
      /\ pc = "checkEmulator" =>
            /\ log.prompts \cap EmulatorPrompts = {} /\ loc.emulators = {}
            /\ \/ pc' = "listEmulators" /\ log' = log /\ loc' = loc
               \/ FailsAtOnceWith(<<"Emulator command not found. Please connect a physical device.">>)
      /\ pc' = "listEmulators" => pc = "checkEmulator"
      /\ pc = "listEmulators" =>
            /\ log.prompts \cap EmulatorPrompts = {}
            /\ \/ pc' = "confirmEmulator" /\ loc'.emulators # {}
               \/ FailsAtOnceWith(<<"No emulators found. Please create an AVD or connect a physical device.">>)
      /\ pc' = "confirmEmulator" => pc = "listEmulators"
      /\ pc = "confirmEmulator" =>
            \/ pc' \in {"startEmulator", "selectEmulator"} /\ log'.failedStage = None
            \/ FailsAtOnceWith(<<"No devices available and emulator startup declined.">>)
            \/ log'.interruptedAt = "confirmEmulator"
      /\ pc' = "selectEmulator" => pc = "confirmEmulator"
      /\ pc' = "startEmulator" =>
            /\ pc \in {"confirmEmulator", "selectEmulator"}
            /\ "confirmEmulator" \in log.prompts
            /\ getAvailableDevices(devices) = {}
            /\ loc.emulators # {} /\ loc'.selectedEmulator \in loc.emulators
      /\ pc' = "poll" => pc \in {"startEmulator", "poll"} ]_vars

\* C32 witness: the boot was declined and the cycle has failed with that message
C32_Witness ==
  /\ pc = "returned" /\ log.failedStage = "device"
  /\ result = Fail(<<"No devices available and emulator startup declined.">>)
  /\ log.prompts \cap EmulatorPrompts = {"confirmEmulator"}

\* C33: after the boot was accepted, a single emulator image is started
\* without an image prompt, and with several images the image is the one
\* chosen in the prompt; when the poll sees a Ready emulator it ends with
\* success, and, the following enumerations listing the same devices,
\* ensureDeviceAvailable succeeds and buildCommand goes on to the Build (by
\* way of the device prompt when several devices are Ready, and unless the
\* selected device cannot be saved).
C33_SingleImageBootsUnprompted ==
  [][ /\ pc = "confirmEmulator" =>
            /\ Cardinality(loc.emulators) = 1 => pc' # "selectEmulator"
            /\ Cardinality(loc.emulators) > 1 => pc' # "startEmulator"
            /\ pc' = "startEmulator" =>
                  /\ loc.emulators = {loc'.selectedEmulator}
                  /\ log' = log
      /\ pc' = "selectEmulator" =>
            Cardinality(loc.emulators) > 1 /\ "selectEmulator" \in log'.prompts
      /\ (pc = "selectEmulator" /\ pc' = "startEmulator") =>
            loc'.selectedEmulator \in loc.emulators
      /\ (pc = "poll" /\ getRunningEmulators(devices') # {}) =>
            pc' = "afterStart" /\ ~log'.softBoot
      /\ (pc = "afterStart" /\ ~log.softBoot /\ devices' = devices) =>
            pc' = "resolveDevice" /\ log' = log
      /\ (pc = "resolveDevice" /\ devices' = devices /\ getAvailableDevices(devices) # {}) =>
            \/ pc' = "build" /\ loc'.targetDeviceId \in getAvailableDevices(devices)
            \/ pc' = "devicePrompt" /\ Cardinality(getAvailableDevices(devices)) > 1
            \/ configFile' = configFile /\ log'.failedStage = "exception" ]_vars

\* C33 witness: the Build is about to start for the emulator that was booted after
\* the confirmation alone
C33_Witness ==
  /\ pc = "build" /\ loc.targetDeviceId = "emulator-5554"
  /\ log.prompts = {"confirmEmulator"}
  /\ devices = [d \in DeviceIds |-> IF isEmulator(d) THEN "device" ELSE "unauthorized"]

(***************************************************************************)
(* AdbManager.startEmulator on its own, from every call ensureDeviceAvailable *)
(* makes: no device is Ready, an image was chosen.                         *)
(***************************************************************************)
NoReadyLists == { l \in DeviceLists : getAvailableDevices(l) = {} }

InitStartEmulator ==
  /\ caller = "command"
  /\ options \in [variant : {"debug"}, device : {None}, interactive : {FALSE},
                  keepAlive : BOOLEAN]
  /\ projectVariants = {"debug", "release"}
  /\ configFile = defaultConfig
  /\ cmConfig = defaultConfig
  /\ devices \in NoReadyLists
  /\ pc = "startEmulator"
  /\ \E ems \in (SUBSET EmulatorImages) \ {{}} : \E em \in ems :
        /\ loc = [NoLocals EXCEPT !.variant = "debug", !.emulators = ems,
                                  !.selectedEmulator = em]
        /\ log = [EmptyLog EXCEPT !.prompts = IF Cardinality(ems) = 1
                                                THEN {"confirmEmulator"}
                                                ELSE {"confirmEmulator", "selectEmulator"}]
  /\ result = NoResult
  /\ exitCode = None
  /\ cycles = 1
  /\ retryFrom = NoRetry
  /\ picked = NoPick
  /\ UnitIdle

NextStartEmulator ==
  \/ StartEmulator
  \/ PollDevices

\* every timer of the loop fires and every enumeration returns
SpecStartEmulator ==
  InitStartEmulator /\ [][NextStartEmulator]_vars /\ WF_vars(NextStartEmulator)

\* C34: the readiness poll of startEmulator ends: an iteration is one wait and
\* one enumeration, the poll is in its iteration attempts + 1 of at most
\* maxAttempts, so far none of its enumerations listed a Ready emulator, and
\* it is left at the first enumeration that lists one, or after the
\* enumeration number maxAttempts, or by the end of the process.
C34_PollTerminates ==
  /\ [](pc = "poll" =>
          /\ loc.attempts \in 0 .. (maxAttempts - 1)
          /\ getRunningEmulators(devices) = {})
  /\ [][pc = "poll" =>
          \/ /\ pc' = "poll"
             /\ loc'.attempts = loc.attempts + 1
             /\ getRunningEmulators(devices') = {}
          \/ /\ pc' = "afterStart"
             /\ getRunningEmulators(devices') # {} \/ loc.attempts = maxAttempts - 1
             /\ log'.softBoot <=> getRunningEmulators(devices') = {}
          \/ pc' = "done" /\ exitCode' = 1 /\ devices' = devices]_vars
  /\ (pc = "poll" ~> pc \in {"afterStart", "done"})

\* C34 witness: the poll was left at an enumeration that lists a Ready emulator
C34_Witness ==
  /\ pc = "afterStart" /\ ~log.softBoot
  /\ getRunningEmulators(devices) = {"emulator-5554"}

\* the positions at which an adb or gradle process is run and awaited
ExternalCallPcs == {"ensureDevice", "poll", "afterStart", "resolveDevice", "build", "install",
                    "uninstall", "clearData", "retryInstall", "launch"}

\* C35 (as claimed): no external operation is started while another one is in
\* flight: the emulator process spawned by startEmulator has come to its end
\* before the enumerations of the readiness poll, and before every later adb
\* or gradle call of the cycle.
C35_OneOperationInFlight ==
  pc \in ExternalCallPcs => ~log.spawned

\* C36 (as claimed): ensureDeviceAvailable succeeds at its first step only on
\* a Ready device that its own enumeration returned: after a failed
\* enumeration the Ready devices of an earlier list are not counted.
C36_FirstStepNeedsFreshReadyDevice ==
  pc = "resolveDevice" => ~log.staleList

\* C37 (as claimed): in a keep-alive session, once the user has chosen a
\* device in Switch Device, a later cycle in which that device is Ready
\* builds, installs and launches on it, whatever device was passed to the
\* command.
C37_SwitchedDeviceIsUsed ==
  (/\ keepAlive
   /\ picked.via = "switch"
   /\ pc \in DeviceCallPcs
   /\ picked.device \in getAvailableDevices(devices)) =>
     loc.targetDeviceId = picked.device

C39_EmulatorFailureIsReported ==
  [][(pc \in {"startEmulator", "poll"}) =>
        \/ pc' \in {"poll", "afterStart"}
        \/ FailsAtOnceWith(<<"Failed to start emulator.">>)]_vars

\* C40 (as claimed): in keep-alive mode the command of Open Logs or Switch
\* Device is run once for each selection: when it is about to run, it has
\* not been run for this selection yet.
C40_SideEffectRunsOnce ==
  (keepAlive /\ pc = "sideEffect") => loc.sideRuns = 0

====
